---- MODULE Spec2Model ----
(***************************************************************************)
(* A model of the GLiNERSwift tooling scripts (src/Scripts):               *)
(*   - generate_test_fixtures.py : the span finder and the greedy span     *)
(*     selection patched into GLiNER2 (SpecSpans);                         *)
(*   - export_span_head.py       : the binary tensor serializer and the    *)
(*     span-head / LSTM export (SpecExport);                               *)
(*   - convert_to_coreml.py      : the Core ML conversion pipeline          *)
(*     (SpecConvert);                                                      *)
(*   - generate_test_fixtures.py : the fixture generation loop              *)
(*     (SpecFixtures);                                                     *)
(*   - compare_benchmarks.py     : the cross-runtime comparison            *)
(*     (SpecCompare);                                                      *)
(*   - benchmarks.py             : the benchmark harness (SpecBench) and   *)
(*     its percentile estimate (SpecPercentile).                           *)
(* Confidence scores and thresholds are written in tenths (0.5 is 5).      *)
(* Text is a sequence of one-character strings.                            *)
(***************************************************************************)
EXTENDS Integers, Sequences, FiniteSets, TLC

\* ---------------------------------------------------------------- bounds

\* The longest text (in tokens) and the number of rows of a score matrix.
MaxTextLen == 3
\* The number of width columns of a score matrix.
MaxWidth == 2
\* The number of matrix cells that carry a non-zero score.
MaxHot == 2
\* The largest in_features / out_features / input_size of an exported layer.
MaxFeatures == 2
\* The largest hidden_size of the exported LSTM.
MaxHidden == 1

\* ------------------------------------------------------------- variables

VARIABLES
    \* generate_test_fixtures.py
    pc,             \* position of the span pipeline
    field_scores,   \* [start -> [width -> score]]
    threshold,      \* None or Some(score)
    text_len,
    record,         \* [text |-> ...]
    outputs,        \* the extraction's outputs dict
    spans,          \* result of _find_valid_spans
    selected,       \* result of _format_span_list
    reselected      \* _format_span_list run again on its own result

VARIABLES
    \* export_span_head.py
    epc,            \* position of main
    model,          \* the loaded GLiNER model: projection layers, rnn
    next_layer,     \* index of the next projection layer to export
    files,          \* output_dir: file name -> bytes
    metadata,       \* the metadata dict as built so far
    metadata_json,  \* metadata.json: None until written
    error           \* the exception that ended main

VARIABLES
    \* convert_to_coreml.py
    cpc,            \* position of main
    args,           \* the parsed command line
    cmodel,         \* the loaded Extractor: count_embed, processor.tokenizer
    toolchain,      \* what the outside does: load_fails, broken conversions
    deberta,        \* modeling_deberta_v2's scaled_size_sqrt and build_rpos
    restore,        \* what restore_deberta() puts back
    next_head,      \* index of the next optional head
    artifacts,      \* the artifacts dict
    out_dir,        \* names written under the output directory
    tokenizer_path, \* None or Some(directory)
    manifest,       \* export_manifest.json: None until written
    outcome,        \* "running", "returned 0" or the exception raised
    warned          \* the messages of LOGGER.warning

spanVars == <<pc, field_scores, threshold, text_len, record, outputs,
              spans, selected, reselected>>

exportVars == <<epc, model, next_layer, files, metadata, metadata_json, error>>

convertVars == <<cpc, args, cmodel, toolchain, deberta, restore, next_head,
                 artifacts, out_dir, tokenizer_path, manifest, outcome,
                 warned>>

VARIABLES
    \* generate_test_fixtures.py: main and generate_fixtures
    gpc,            \* position of main
    gargs,          \* the command line: the additional test cases, if any
    gmodel,         \* the GLiNER2 model: tokenizer, config, failing inputs
    test_cases,     \* the list handed to generate_fixtures
    case_idx,       \* index of the next test case
    fixtures,       \* the fixtures dict: metadata, test_cases
    warnings,       \* ids printed by the except branch
    output_file     \* the output JSON: None until written

VARIABLES
    \* compare_benchmarks.py
    xpc,            \* position of main
    xargs,          \* the command line: skip_python, skip_swift
    runtimes,       \* what each runtime's invocation does when started
    invocations,    \* the subprocesses started, in order
    python_stats,   \* None or Some(stats)
    swift_stats,    \* None or Some(stats)
    table,          \* the rows printed by print_comparison
    xoutcome        \* "running", "returned" or the exception raised

VARIABLES
    \* benchmarks.py: run_benchmarks and main
    bpc,            \* position of main / run_benchmarks
    bargs,          \* the command line: iterations, warmup, output
    corpus,         \* the fixtures list read from the JSONL file
    sample_idx,     \* index of the sample being run
    warm_done,      \* warmup passes completed for this sample
    iter_done,      \* measured passes completed for this sample
    calls,          \* the model calls made, in order
    latencies,
    total_characters,
    total_entities,
    stats,          \* None or Some(summary)
    summary_file,   \* args.output: None until written
    boutcome        \* "running", "returned" or the exception raised

VARIABLES
    \* benchmarks.py: percentile
    qpc,
    pvalues,        \* the values argument
    quantile,       \* q, in hundredths
    estimate,       \* None or Some(percentile(values, q) * 100) in exact
                    \* arithmetic
    returned        \* None or Some(the float percentile returns)

VARIABLES
    \* prepare_benchmark_data.py
    ppc,
    pargs,          \* input (None: the seed samples), append
    input_file,     \* what args.input holds
    prior,          \* args.output before the run: None (no file) or lines
    destination,    \* args.output: None (no file) or Some(lines)
    psamples,       \* the samples main validates
    validated,      \* the list main builds at line 98
    handle,         \* write_jsonl: None, or Some(entries written so far)
    poutcome        \* "running", "returned" or the exception raised

VARIABLES
    \* dump_gliner2_tensors.py
    dpc,
    dargs,          \* case_id, and the fixture file's cases
    druntime,       \* what the library does: load, extraction, count
    predict_spans,  \* GLiNER2._predict_spans
    captured,       \* the keys of the captured dict
    dump_file,      \* args.output: None until written
    doutcome

VARIABLES
    \* convert_to_coreml.py: ExportableDownscaledTransformer
    wpc,
    embed_dim,      \* attention.embed_dim
    original,       \* the DownscaledTransformer, its parameters as
                    \* storage ids
    rewritten,      \* the ExportableDownscaledTransformer under
                    \* construction
    heap            \* the parameter storages: id -> entries along dim 0

fixtureVars == <<gpc, gargs, gmodel, test_cases, case_idx, fixtures,
                 warnings, output_file>>

compareVars == <<xpc, xargs, runtimes, invocations, python_stats,
                 swift_stats, table, xoutcome>>

benchVars == <<bpc, bargs, corpus, sample_idx, warm_done, iter_done, calls,
               latencies, total_characters, total_entities, stats,
               summary_file, boutcome>>

percentileVars == <<qpc, pvalues, quantile, estimate, returned>>

prepareVars == <<ppc, pargs, input_file, prior, destination, psamples,
                 validated, handle, poutcome>>

dumpVars == <<dpc, dargs, druntime, predict_spans, captured, dump_file,
              doutcome>>

rewriteVars == <<wpc, embed_dim, original, rewritten, heap>>

toolVars == <<prepareVars, dumpVars, rewriteVars>>

harnessVars == <<fixtureVars, compareVars, benchVars, percentileVars, toolVars>>

\* The variables of the scripts modelled before the tools.
scriptVars == <<spanVars, exportVars, convertVars, fixtureVars, compareVars,
                benchVars, percentileVars>>

vars == <<spanVars, exportVars, convertVars, harnessVars>>

\* ------------------------------------------------------- python helpers

None == <<>>
Some(x) == <<x>>
IsNone(o) == o = <<>>
Get(o) == o[1]

Min(a, b) == IF a <= b THEN a ELSE b
Max(a, b) == IF a >= b THEN a ELSE b

\* seq[a:b] for a, b >= 0 (0-based, half-open, clamped to the length).
PySlice(s, a, b) == SubSeq(s, Min(a, Len(s)) + 1, Min(b, Len(s)))

\* seq[-n:] for n > 0: the last n elements (all of them when n > len).
PyLast(s, n) == SubSeq(s, Max(Len(s) - n, 0) + 1, Len(s))

\* seq[i] for i >= 0: None stands for the IndexError.
PyIndex(s, i) == IF i + 1 \in DOMAIN s THEN Some(s[i + 1]) ELSE None

RECURSIVE LStrip(_)
LStrip(s) == IF s # <<>> /\ Head(s) = " " THEN LStrip(Tail(s)) ELSE s

RECURSIVE RStrip(_)
RStrip(s) ==
    IF s # <<>> /\ s[Len(s)] = " " THEN RStrip(SubSeq(s, 1, Len(s) - 1)) ELSE s

\* str.strip()
Strip(s) == RStrip(LStrip(s))

\* " ".join(tokens)
RECURSIVE Join(_)
Join(tokens) ==
    IF tokens = <<>> THEN <<>>
    ELSE IF Len(tokens) = 1 THEN tokens[1]
    ELSE tokens[1] \o <<" ">> \o Join(Tail(tokens))

\* --------------------------------------------------- _find_valid_spans

\* threshold defaults to 0.5
DefaultThreshold == 5

EffectiveThreshold(th) == IF IsNone(th) THEN DefaultThreshold ELSE Get(th)

NumRows(fs) == Cardinality(DOMAIN fs)
NumCols(fs) == IF NumRows(fs) = 0 THEN 0 ELSE Cardinality(DOMAIN fs[0])

\* torch.where(field_scores >= threshold): the (start, width) positions
\* meeting the threshold, in row-major order.
RECURSIVE WhereFrom(_, _, _)
WhereFrom(fs, th, k) ==
    IF k >= NumRows(fs) * NumCols(fs) THEN <<>>
    ELSE LET start == k \div NumCols(fs)
             width == k % NumCols(fs)
             rest  == WhereFrom(fs, th, k + 1)
         IN  IF fs[start][width] >= th THEN <<(<<start, width>>)>> \o rest
             ELSE rest

ValidPositions(fs, th) == WhereFrom(fs, th, 0)

\* if 0 <= start < text_len and end <= text_len
SpanInRangeLoose(start, end, tl) == 0 <= start /\ start < tl /\ end <= tl + 1
SpanInRange(start, end, tl) == 0 <= start /\ start < tl /\ end <= tl

\* The candidate of one position: None when the position is rejected,
\* else Some(<<text, confidence, char_start, char_end, start, end>>).
SpanAt(fs, rec, outs, tl, start, width) ==
    LET start_map == outs.start_token_idx_to_text_idx
        end_map == outs.end_token_idx_to_text_idx
        has_char_mapping == start_map # <<>> /\ end_map # <<>>
        text_tokens == IF tl > 0 THEN PyLast(outs.text_tokens, tl)
                       ELSE outs.text_tokens
        end == start + width + 1
        cs0 == IF has_char_mapping THEN PyIndex(start_map, start) ELSE None
        ce0 == IF has_char_mapping THEN PyIndex(end_map, end - 1) ELSE None
        \* an IndexError on either lookup resets both to None
        mapped == ~IsNone(cs0) /\ ~IsNone(ce0)
        text_span == IF mapped
                     THEN Strip(PySlice(rec.text, Get(cs0), Get(ce0)))
                     ELSE Strip(Join(PySlice(text_tokens, start, end)))
        confidence == fs[start][width]
    IN  IF SpanInRange(start, end, tl) /\ text_span # <<>>
        THEN Some(<<text_span, confidence,
                    IF mapped THEN Get(cs0) ELSE -1,
                    IF mapped THEN Get(ce0) ELSE -1,
                    start, end>>)
        ELSE None

RECURSIVE SpansOf(_, _, _, _, _)
SpansOf(fs, rec, outs, tl, positions) ==
    IF positions = <<>> THEN <<>>
    ELSE LET p == Head(positions)
             s == SpanAt(fs, rec, outs, tl, p[1], p[2])
             rest == SpansOf(fs, rec, outs, tl, Tail(positions))
         IN  IF IsNone(s) THEN rest ELSE <<Get(s)>> \o rest

FindValidSpans(fs, th, rec, outs, tl) ==
    SpansOf(fs, rec, outs, tl, ValidPositions(fs, EffectiveThreshold(th)))

\* --------------------------------------------------- _format_span_list

\* Tuple fields of a candidate span.
Conf(sp) == sp[2]
TokStart(sp) == sp[5]
TokEnd(sp) == sp[6]

\* sorted(spans, key=lambda x: x[1], reverse=True): stable, so spans of
\* equal confidence keep their input order.
RECURSIVE InsertDesc(_, _)
InsertDesc(sorted, sp) ==
    IF sorted = <<>> THEN <<sp>>
    ELSE IF Conf(Head(sorted)) >= Conf(sp)
         THEN <<Head(sorted)>> \o InsertDesc(Tail(sorted), sp)
         ELSE <<sp>> \o sorted

\* The same insertion placing a span before its equals: what
\* sorted(spans, key=...)[::-1] would give.
RECURSIVE InsertDescTiesReversed(_, _)
InsertDescTiesReversed(sorted, sp) ==
    IF sorted = <<>> THEN <<sp>>
    ELSE IF Conf(Head(sorted)) > Conf(sp)
         THEN <<Head(sorted)>> \o InsertDescTiesReversed(Tail(sorted), sp)
         ELSE <<sp>> \o sorted

RECURSIVE SortFrom(_, _)
SortFrom(acc, rest) ==
    IF rest = <<>> THEN acc
    ELSE SortFrom(InsertDesc(acc, Head(rest)), Tail(rest))

RECURSIVE SortFromTiesReversed(_, _)
SortFromTiesReversed(acc, rest) ==
    IF rest = <<>> THEN acc
    ELSE SortFromTiesReversed(InsertDescTiesReversed(acc, Head(rest)), Tail(rest))

SortedTiesReversed(sps) == SortFromTiesReversed(<<>>, sps)
SortedByConfidenceDesc(sps) == SortFrom(<<>>, sps)

\* not (token_end <= existing_token_start or token_start >= existing_token_end)
OverlapsStartOnly(ts, te, existing) ==
    ts >= existing.token_start /\ ts < existing.token_end
OverlapsTouching(ts, te, existing) ==
    ~(te < existing.token_start \/ ts > existing.token_end)
Overlaps(ts, te, existing) ==
    ~(te <= existing.token_start \/ ts >= existing.token_end)

AsDict(sp) ==
    [text |-> sp[1], score |-> sp[2], start |-> sp[3], end |-> sp[4],
     token_start |-> sp[5], token_end |-> sp[6]]

RECURSIVE SelectFrom(_, _)
SelectFrom(sel, sorted_spans) ==
    IF sorted_spans = <<>> THEN sel
    ELSE LET sp == Head(sorted_spans)
             overlap == \E i \in DOMAIN sel :
                            Overlaps(TokStart(sp), TokEnd(sp), sel[i])
         IN  SelectFrom(IF overlap THEN sel ELSE Append(sel, AsDict(sp)),
                        Tail(sorted_spans))

FormatSpanList(sps) ==
    IF sps = <<>> THEN <<>>
    ELSE SelectFrom(<<>>, SortedByConfidenceDesc(sps))

\* A selected span as the candidate tuple _format_span_list takes.
AsTuple(d) == <<d.text, d.score, d.start, d.end, d.token_start, d.token_end>>
AsTuples(sel) == [i \in DOMAIN sel |-> AsTuple(sel[i])]

\* ------------------------------------------------ span pipeline (state)

Alphabet == <<"a", "b", "c", "d", "e", "f", "g", "h">>

Cells == (0 .. MaxTextLen - 1) \X (0 .. MaxWidth - 1)
HotScores == {7, 9}
Thresholds == {None, Some(9)}

\* A score matrix: zero but for the cells of `hot`.
Matrix(hot, f) ==
    [s \in 0 .. MaxTextLen - 1 |->
        [w \in 0 .. MaxWidth - 1 |->
            IF <<s, w>> \in hot THEN f[<<s, w>>] ELSE 0]]

\* A text of n one-letter words: the words, the text, the char maps.
Words(n) == [i \in 1 .. n |-> <<Alphabet[i]>>]
TextOf(n) == Join(Words(n))
StartMap(n) == [i \in 1 .. n |-> 2 * (i - 1)]
EndMap(n) == [i \in 1 .. n |-> 2 * (i - 1) + 1]

\* The outputs dicts a record of n tokens is run with: full char maps;
\* no char maps (the tokens follow a prompt token); char maps one entry
\* long; neither maps nor tokens.
OutputsOf(n) ==
    { [start_token_idx_to_text_idx |-> StartMap(n),
       end_token_idx_to_text_idx |-> EndMap(n),
       text_tokens |-> Words(n)],
      [start_token_idx_to_text_idx |-> <<>>,
       end_token_idx_to_text_idx |-> <<>>,
       text_tokens |-> <<(<<"p">>)>> \o Words(n)],
      [start_token_idx_to_text_idx |-> StartMap(Min(n, 1)),
       end_token_idx_to_text_idx |-> EndMap(Min(n, 1)),
       text_tokens |-> Words(n)],
      [start_token_idx_to_text_idx |-> <<>>,
       end_token_idx_to_text_idx |-> <<>>,
       text_tokens |-> <<>>] }

\* The span pipeline when another script is the one running.
IdleSpans ==
    /\ pc = "idle"
    /\ field_scores = <<>>
    /\ threshold = None
    /\ text_len = 0
    /\ record = [text |-> <<>>]
    /\ outputs = <<>>
    /\ spans = <<>>
    /\ selected = <<>>
    /\ reselected = <<>>

\* The span-head export when another script is the one running.
IdleExport ==
    /\ epc = "idle"
    /\ model = <<>>
    /\ next_layer = 0
    /\ files = <<>>
    /\ metadata = <<>>
    /\ metadata_json = None
    /\ error = ""

\* The Core ML conversion when another script is the one running.
IdleConvert ==
    /\ cpc = "idle"
    /\ args = <<>>
    /\ cmodel = <<>>
    /\ toolchain = <<>>
    /\ deberta = <<>>
    /\ restore = <<>>
    /\ next_head = 0
    /\ artifacts = <<>>
    /\ out_dir = {}
    /\ tokenizer_path = None
    /\ manifest = None
    /\ outcome = ""
    /\ warned = {}

\* The fixture generation when another script is the one running.
IdleFixtures ==
    /\ gpc = "idle"
    /\ gargs = <<>>
    /\ gmodel = <<>>
    /\ test_cases = <<>>
    /\ case_idx = 0
    /\ fixtures = <<>>
    /\ warnings = <<>>
    /\ output_file = None

\* The comparison when another script is the one running.
IdleCompare ==
    /\ xpc = "idle"
    /\ xargs = <<>>
    /\ runtimes = <<>>
    /\ invocations = <<>>
    /\ python_stats = None
    /\ swift_stats = None
    /\ table = <<>>
    /\ xoutcome = ""

\* The benchmark harness when another script is the one running.
IdleBench ==
    /\ bpc = "idle"
    /\ bargs = <<>>
    /\ corpus = <<>>
    /\ sample_idx = 0
    /\ warm_done = 0
    /\ iter_done = 0
    /\ calls = <<>>
    /\ latencies = <<>>
    /\ total_characters = 0
    /\ total_entities = 0
    /\ stats = None
    /\ summary_file = None
    /\ boutcome = ""

\* The percentile estimate when another script is the one running.
IdlePercentile ==
    /\ qpc = "idle"
    /\ pvalues = <<>>
    /\ quantile = 0
    /\ estimate = None
    /\ returned = None

IdlePrepare ==
    /\ ppc = "idle"
    /\ pargs = <<>>
    /\ input_file = <<>>
    /\ prior = None
    /\ destination = None
    /\ psamples = <<>>
    /\ validated = <<>>
    /\ handle = None
    /\ poutcome = ""

IdleDump ==
    /\ dpc = "idle"
    /\ dargs = <<>>
    /\ druntime = <<>>
    /\ predict_spans = "original"
    /\ captured = {}
    /\ dump_file = None
    /\ doutcome = ""

IdleRewrite ==
    /\ wpc = "idle"
    /\ embed_dim = 0
    /\ original = <<>>
    /\ rewritten = <<>>
    /\ heap = <<>>

IdleTools == IdlePrepare /\ IdleDump /\ IdleRewrite

IdleHarness ==
    IdleFixtures /\ IdleCompare /\ IdleBench /\ IdlePercentile /\ IdleTools

InitSpans ==
    /\ IdleExport
    /\ IdleConvert
    /\ IdleHarness
    /\ pc = "scored"
    /\ \E hot \in {h \in SUBSET Cells : Cardinality(h) <= MaxHot} :
         \E f \in [hot -> HotScores] :
            field_scores = Matrix(hot, f)
    /\ threshold \in Thresholds
    /\ text_len \in 0 .. MaxTextLen
    /\ record = [text |-> TextOf(text_len)]
    /\ outputs \in OutputsOf(text_len)
    /\ spans = <<>>
    /\ selected = <<>>
    /\ reselected = <<>>

\* GLiNER2._find_valid_spans(field_scores, threshold, record, outputs, text_len)
FindSpans ==
    /\ pc = "scored"
    /\ spans' = FindValidSpans(field_scores, threshold, record, outputs, text_len)
    /\ pc' = "found"
    /\ UNCHANGED <<field_scores, threshold, text_len, record, outputs,
                   selected, reselected, exportVars, convertVars, harnessVars>>

\* GLiNER2._format_span_list(spans)
FormatSpans ==
    /\ pc = "found"
    /\ selected' = FormatSpanList(spans)
    /\ pc' = "selected"
    /\ UNCHANGED <<field_scores, threshold, text_len, record, outputs,
                   spans, reselected, exportVars, convertVars, harnessVars>>

\* _format_span_list run once more, on the list it returned.
Reselect ==
    /\ pc = "selected"
    /\ reselected' = FormatSpanList(AsTuples(selected))
    /\ pc' = "reselected"
    /\ UNCHANGED <<field_scores, threshold, text_len, record, outputs,
                   spans, selected, exportVars, convertVars, harnessVars>>

NextSpans == FindSpans \/ FormatSpans \/ Reselect

SpecSpans == InitSpans /\ [][NextSpans]_vars

\* ------------------------------------------------ claims on the spans

\* Half-open token ranges [s1, e1) and [s2, e2) share a token.
Intersect(s1, e1, s2, e2) == Max(s1, s2) < Min(e1, e2)

\* The candidates (indices of spans) that were selected.
Sel == {k \in DOMAIN spans : \E j \in DOMAIN selected : selected[j] = AsDict(spans[k])}

\* Candidate m is visited before candidate k.
Precedes(m, k) ==
    \/ Conf(spans[m]) > Conf(spans[k])
    \/ Conf(spans[m]) = Conf(spans[k]) /\ m < k

CandIntersect(m, k) ==
    Intersect(TokStart(spans[m]), TokEnd(spans[m]),
              TokStart(spans[k]), TokEnd(spans[k]))

\* C1: every candidate the span finder emits comes from a (start, width)
\* position of the score matrix whose score is >= the threshold, with
\* 0 <= start < text_len and end = start + width + 1 <= text_len, and
\* carries that score and the token range [start, start + width + 1); on
\* a text of length 1 the position (0, 0) is emitted when it meets the
\* threshold and has text, and no candidate has start 0 and width
\* text_len.
C1_FoundSpansValid ==
    pc # "scored" =>
        /\ \A i \in DOMAIN spans :
             LET start == TokStart(spans[i])
                 end == TokEnd(spans[i])
                 width == end - start - 1
             IN  /\ start \in DOMAIN field_scores
                 /\ width \in DOMAIN field_scores[start]
                 /\ field_scores[start][width] >= EffectiveThreshold(threshold)
                 /\ Conf(spans[i]) = field_scores[start][width]
                 /\ 0 <= start /\ start < text_len /\ end <= text_len
        /\ (/\ text_len = 1
            /\ field_scores[0][0] >= EffectiveThreshold(threshold)
            /\ outputs.text_tokens # <<>>)
              => \E i \in DOMAIN spans :
                    TokStart(spans[i]) = 0 /\ TokEnd(spans[i]) = 1
        /\ ~ \E i \in DOMAIN spans :
                TokStart(spans[i]) = 0 /\ TokEnd(spans[i]) = text_len + 1

\* A position meeting the threshold was emitted and another, whose end
\* passes the text's end, was not.
C1_Witness ==
    /\ pc = "found"
    /\ spans # <<>>
    /\ \E s \in DOMAIN field_scores : \E w \in DOMAIN field_scores[s] :
          /\ field_scores[s][w] >= EffectiveThreshold(threshold)
          /\ s < text_len
          /\ s + w + 1 > text_len

\* C2: no two selected spans have intersecting half-open token ranges.
C2_SelectedDisjoint ==
    pc \in {"selected", "reselected"} =>
        \A i, j \in DOMAIN selected :
            i # j => ~Intersect(selected[i].token_start, selected[i].token_end,
                                selected[j].token_start, selected[j].token_end)

\* Two candidates overlapped and one of them was dropped.
C2_Witness ==
    /\ pc = "selected"
    /\ Len(spans) = 2
    /\ CandIntersect(1, 2)
    /\ Len(selected) = 1

\* C3: selection is greedy by confidence: a candidate is selected exactly
\* when no selected candidate visited before it (higher confidence, or
\* equal confidence and earlier) intersects its token range; ranges that
\* only touch do not intersect; every rejected candidate intersects a
\* selected span of greater-or-equal confidence; of [0,3) at 0.9 and
\* [2,5) at 0.7 only the 0.9 span is selected.
C3_GreedyByConfidence ==
    /\ pc \in {"selected", "reselected"} =>
        /\ Len(selected) = Cardinality(Sel)
        /\ \A k \in DOMAIN spans :
             k \in Sel <=> ~ \E m \in Sel : Precedes(m, k) /\ CandIntersect(m, k)
        /\ \A k \in DOMAIN spans \ Sel :
             \E j \in DOMAIN selected :
                /\ selected[j].score >= Conf(spans[k])
                /\ Intersect(selected[j].token_start, selected[j].token_end,
                             TokStart(spans[k]), TokEnd(spans[k]))
    /\ FormatSpanList(<< <<(<<"x">>), 9, -1, -1, 0, 3>>, <<(<<"y">>), 7, -1, -1, 2, 5>> >>)
         = << AsDict(<<(<<"x">>), 9, -1, -1, 0, 3>>) >>
    /\ FormatSpanList(<< <<(<<"y">>), 7, -1, -1, 2, 5>>, <<(<<"x">>), 9, -1, -1, 0, 3>> >>)
         = << AsDict(<<(<<"x">>), 9, -1, -1, 0, 3>>) >>

\* A candidate of lower confidence was rejected for a selected one, or
\* two candidates whose ranges touch were both selected.
C3_Witness ==
    /\ pc = "selected"
    /\ Len(spans) = 2
    /\ Conf(spans[1]) < Conf(spans[2])
    /\ selected = <<AsDict(spans[2])>>

\* Two candidates whose ranges only touch were both selected.
C3_WitnessTouching ==
    /\ pc = "selected"
    /\ Len(selected) = 2
    /\ selected[1].token_end = selected[2].token_start

\* C4: the selected list is in descending confidence; selected spans of
\* equal confidence are in candidate order; of two intersecting
\* candidates of equal confidence the later one is selected only if the
\* earlier one was rejected for a span visited before it.
C4_StableDescending ==
    pc \in {"selected", "reselected"} =>
        /\ \A i, j \in DOMAIN selected :
             i < j => selected[i].score >= selected[j].score
        /\ \A i, j \in DOMAIN selected :
             (i < j /\ selected[i].score = selected[j].score) =>
                \E k, m \in DOMAIN spans :
                    /\ k < m
                    /\ selected[i] = AsDict(spans[k])
                    /\ selected[j] = AsDict(spans[m])
        /\ \A k, m \in DOMAIN spans :
             (/\ k < m
              /\ Conf(spans[k]) = Conf(spans[m])
              /\ CandIntersect(k, m)
              /\ m \in Sel)
                => \E s \in Sel : /\ s # m
                                  /\ Precedes(s, k)
                                  /\ CandIntersect(s, k)

\* Two intersecting candidates of equal confidence: the first was selected.
C4_Witness ==
    /\ pc = "selected"
    /\ Len(spans) = 2
    /\ Conf(spans[1]) = Conf(spans[2])
    /\ CandIntersect(1, 2)
    /\ selected = <<AsDict(spans[1])>>

Abs(v) == IF v < 0 THEN -v ELSE v

RECURSIVE Pow2(_)
Pow2(k) == IF k <= 0 THEN 1 ELSE 2 * Pow2(k - 1)

\* floor(log2 n) for n >= 1
RECURSIVE ILog2(_)
ILog2(n) == IF n < 2 THEN 0 ELSE 1 + ILog2(n \div 2)

NumElems(shape) == IF Len(shape) = 1 THEN shape[1] ELSE shape[1] * shape[2]

Indices(shape) ==
    IF Len(shape) = 1 THEN {<<i>> : i \in 0 .. shape[1] - 1}
    ELSE (0 .. shape[1] - 1) \X (0 .. shape[2] - 1)

\* The k-th (0-based) index of a shape in row-major (C) order, and in
\* column-major (Fortran) order.
UnravelRowMajor(k, shape) ==
    IF Len(shape) = 1 THEN <<k>> ELSE <<k \div shape[2], k % shape[2]>>
UnravelColMajor(k, shape) ==
    IF Len(shape) = 1 THEN <<k>> ELSE <<k % shape[1], k \div shape[1]>>

\* The row-major position of an index.
RavelRowMajor(idx, shape) ==
    IF Len(shape) = 1 THEN idx[1] ELSE idx[1] * shape[2] + idx[2]

\* tensor.to(torch.float32): round to nearest, ties to even, at 24
\* significant bits.
ToFloat32(v) ==
    LET a == Abs(v)
        e == ILog2(a)
    IN  IF a = 0 \/ e <= 23 THEN v
        ELSE LET ulp == Pow2(e - 23)
                 q == a \div ulp
                 r == a % ulp
                 up == 2 * r > ulp \/ (2 * r = ulp /\ q % 2 = 1)
                 rounded == (IF up THEN q + 1 ELSE q) * ulp
             IN  IF v < 0 THEN -rounded ELSE rounded

\* One float32 as "<f4": its four bytes, least significant first
\* (1 sign bit, 8 exponent bits biased by 127, 23 fraction bits).
F32BytesBigEndian(v) ==
    LET a == Abs(v)
        e == ILog2(a)
        mant == IF e <= 23 THEN a * Pow2(23 - e) - Pow2(23)
                ELSE a \div Pow2(e - 23) - Pow2(23)
        low == (e + 127) * Pow2(23) + mant
        sign == IF v < 0 THEN 128 ELSE 0
    IN  IF a = 0 THEN <<0, 0, 0, 0>>
        ELSE <<low \div 16777216 + sign, (low \div 65536) % 256,
               (low \div 256) % 256, low % 256>>
F32Bytes(v) ==
    LET a == Abs(v)
        e == ILog2(a)
        mant == IF e <= 23 THEN a * Pow2(23 - e) - Pow2(23)
                ELSE a \div Pow2(e - 23) - Pow2(23)
        low == (e + 127) * Pow2(23) + mant
        sign == IF v < 0 THEN 128 ELSE 0
    IN  IF a = 0 THEN <<0, 0, 0, 0>>
        ELSE <<low % 256, (low \div 256) % 256, (low \div 65536) % 256,
               low \div 16777216 + sign>>

\* array.astype("<f4").tofile(path): the elements in C order, four bytes
\* each, nothing else.
RECURSIVE BytesFrom(_, _)
BytesFrom(t, k) ==
    IF k >= NumElems(t.shape) THEN <<>>
    ELSE F32Bytes(ToFloat32(t.elems[UnravelRowMajor(k, t.shape)]))
            \o BytesFrom(t, k + 1)

RECURSIVE BytesFromColMajor(_, _)
BytesFromColMajor(t, k) ==
    IF k >= NumElems(t.shape) THEN <<>>
    ELSE F32Bytes(ToFloat32(t.elems[UnravelColMajor(k, t.shape)]))
            \o BytesFromColMajor(t, k + 1)

TensorBytesColMajor(t) == BytesFromColMajor(t, 0)
TensorBytes(t) == BytesFrom(t, 0)

\* path.tofile / open(path, "w"): create or overwrite one file.
WriteFile(fs, name, content) ==
    [n \in DOMAIN fs \cup {name} |-> IF n = name THEN content ELSE fs[n]]

\* ---------------------------------------------------------- save_linear

\* save_linear(linear, prefix, out_dir): the weight file is written, then
\* the bias file; save_tensor(None) raises AttributeError at .detach().
SaveLinear(linear, prefix, fs) ==
    LET weight_name == prefix \o ".weight.bin"
        bias_name == prefix \o ".bias.bin"
        fs1 == WriteFile(fs, weight_name, TensorBytes(linear.weight))
    IN  IF IsNone(linear.bias)
        THEN [files |-> fs1, raised |-> TRUE, info |-> None]
        ELSE [files |-> WriteFile(fs1, bias_name, TensorBytes(Get(linear.bias))),
              raised |-> FALSE,
              info |-> Some([weight |-> weight_name,
                             bias |-> bias_name,
                             in_features |-> linear.in_features,
                             out_features |-> linear.out_features])]

\* export_projection_layer(seq, name, out_dir): fc1 = seq[0], fc2 = seq[3].
ExportProjectionLayer(seq, name, fs) ==
    LET r1 == SaveLinear(seq.fc1, name \o "_fc1", fs)
        r2 == SaveLinear(seq.fc2, name \o "_fc2", r1.files)
    IN  IF r1.raised THEN r1
        ELSE IF r2.raised THEN r2
        ELSE [files |-> r2.files, raised |-> FALSE,
              info |-> Some([fc1 |-> Get(r1.info), fc2 |-> Get(r2.info)])]

\* ---------------------------------------------------------- export_lstm

\* bias_ih + bias_hh: the elementwise float32 sum.
LstmBiasInputOnly(bias_ih, bias_hh) == bias_ih
LstmBias(bias_ih, bias_hh) ==
    [shape |-> bias_ih.shape,
     elems |-> [i \in DOMAIN bias_ih.elems |->
                    ToFloat32(bias_ih.elems[i] + bias_hh.elems[i])]]

\* f"l{layer_idx}_reverse" if reverse else f"l{layer_idx}", for layer 0
Suffix(reverse) == IF reverse THEN "l0_reverse" ELSE "l0"
Direction(reverse) == IF reverse THEN "backward" ELSE "forward"

\* export_lstm_direction(lstm, 0, reverse, prefix, out_dir)
ExportLstmDirection(lstm, reverse, prefix, fs) ==
    LET weight_ih == lstm.params["weight_ih_" \o Suffix(reverse)]
        weight_hh == lstm.params["weight_hh_" \o Suffix(reverse)]
        bias_ih == lstm.params["bias_ih_" \o Suffix(reverse)]
        bias_hh == lstm.params["bias_hh_" \o Suffix(reverse)]
        stem == prefix \o "_" \o Direction(reverse)
        fs1 == WriteFile(fs, stem \o ".weight_ih.bin", TensorBytes(weight_ih))
        fs2 == WriteFile(fs1, stem \o ".weight_hh.bin", TensorBytes(weight_hh))
        fs3 == WriteFile(fs2, stem \o ".bias.bin",
                         TensorBytes(LstmBias(bias_ih, bias_hh)))
    IN  [files |-> fs3,
         info |-> [weight_ih |-> stem \o ".weight_ih.bin",
                   weight_hh |-> stem \o ".weight_hh.bin",
                   bias |-> stem \o ".bias.bin"]]

\* if lstm.num_layers != 1: raise RuntimeError
LstmSupportedAnyDepth(lstm) == lstm.num_layers >= 1
LstmSupported(lstm) == lstm.num_layers = 1

\* export_lstm(lstm, prefix, out_dir)
ExportLstm(lstm, prefix, fs) ==
    LET fwd == ExportLstmDirection(lstm, FALSE, prefix, fs)
        bwd == ExportLstmDirection(lstm, TRUE, prefix, fwd.files)
        head == [input_size |-> lstm.input_size,
                 hidden_size |-> lstm.hidden_size,
                 num_layers |-> lstm.num_layers,
                 bidirectional |-> lstm.bidirectional]
    IN  IF ~LstmSupported(lstm)
        THEN [files |-> fs, raised |-> TRUE, info |-> None]
        ELSE IF lstm.bidirectional
        THEN [files |-> bwd.files, raised |-> FALSE,
              info |-> Some([head |-> head, forward |-> Some(fwd.info),
                             backward |-> Some(bwd.info)])]
        ELSE [files |-> fwd.files, raised |-> FALSE,
              info |-> Some([head |-> head, forward |-> Some(fwd.info),
                             backward |-> None])]

\* ----------------------------------------------------- export run (state)

\* span_layer.project_start, .project_end, .out_project, prompt_rep_layer:
\* the order main exports them in.
LayerNames == <<"project_start", "project_end", "out_project", "prompt_projection">>

\* A tensor whose elements count up by `step` from `a` in row-major order.
RampTensor(shape, a, step) ==
    [shape |-> shape,
     elems |-> [idx \in Indices(shape) |-> a + step * RavelRowMajor(idx, shape)]]

BaseValues == {-3, 5}
\* Weight values: with the offsets added, small negatives, zero, and
\* values needing all of the 23 fraction bits.
WeightBases == {-3, 8388607}
Steps == {0, 1}

\* torch.nn.Linear(in_features, out_features): weight is (out, in), bias
\* is (out) or None.
Linear(inf, outf, wa, wstep, ba, bstep, has_bias) ==
    [in_features |-> inf,
     out_features |-> outf,
     weight |-> RampTensor(<<outf, inf>>, wa, wstep),
     bias |-> IF has_bias THEN Some(RampTensor(<<outf>>, ba, bstep)) ELSE None]

\* The k-th linear of the model (fc1 and fc2 of each projection layer, in
\* export order): each has its own values; linear number `nobias` has no
\* bias.
LinearAt(k, inf, outf, wa, wstep, ba, bstep, nobias) ==
    Linear(inf, outf, wa + k, wstep, ba - k, bstep, k # nobias)

Projections(inf, outf, wa, wstep, ba, bstep, nobias) ==
    [i \in 1 .. Len(LayerNames) |->
        [fc1 |-> LinearAt(2 * i - 1, inf, outf, wa, wstep, ba, bstep, nobias),
         fc2 |-> LinearAt(2 * i, inf, outf, wa, wstep, ba, bstep, nobias)]]

\* The layer-0 parameters of one direction of a torch.nn.LSTM: weight_ih
\* is (4*hidden, input), weight_hh is (4*hidden, hidden), the biases are
\* (4*hidden).
LstmParams(input_size, hidden_size, reverse, ih, hh) ==
    LET sfx == Suffix(reverse)
    IN  [n \in {"weight_ih_" \o sfx, "weight_hh_" \o sfx,
                "bias_ih_" \o sfx, "bias_hh_" \o sfx} |->
            IF n = "weight_ih_" \o sfx
            THEN RampTensor(<<4 * hidden_size, input_size>>, 1, 1)
            ELSE IF n = "weight_hh_" \o sfx
            THEN RampTensor(<<4 * hidden_size, hidden_size>>, -1, 2)
            ELSE IF n = "bias_ih_" \o sfx
            THEN RampTensor(<<4 * hidden_size>>, ih[1], ih[2])
            ELSE RampTensor(<<4 * hidden_size>>, hh[1], hh[2])]

MergeParams(f, g) ==
    [n \in DOMAIN f \cup DOMAIN g |-> IF n \in DOMAIN f THEN f[n] ELSE g[n]]

Lstm(num_layers, bidirectional, input_size, hidden_size, fih, fhh, bih, bhh) ==
    [num_layers |-> num_layers,
     bidirectional |-> bidirectional,
     input_size |-> input_size,
     hidden_size |-> hidden_size,
     params |-> IF bidirectional
                THEN MergeParams(
                       LstmParams(input_size, hidden_size, FALSE, fih, fhh),
                       LstmParams(input_size, hidden_size, TRUE, bih, bhh))
                ELSE LstmParams(input_size, hidden_size, FALSE, fih, fhh)]

DefaultLstm == Lstm(1, TRUE, 1, 1, <<5, 1>>, <<-3, 1>>, <<5, 0>>, <<-3, 0>>)
DefaultProjections == Projections(1, 2, 5, 1, -3, 1, 0)

\* The models an export is run on: the projection layers vary (sizes,
\* values, one linear without a bias) with the rnn fixed, or the rnn
\* varies (absent, depth, directions, sizes, biases) with the projection
\* layers fixed.
Models ==
    { [layers |-> Projections(inf, outf, w[1], w[2], b[1], b[2], nobias),
       rnn |-> Some(DefaultLstm)] :
        inf \in 1 .. MaxFeatures, outf \in 1 .. MaxFeatures,
        w \in WeightBases \X Steps, b \in BaseValues \X Steps,
        nobias \in 0 .. 2 * Len(LayerNames) }
    \cup
    { [layers |-> DefaultProjections,
       rnn |-> Some(Lstm(nl, TRUE, inp, hid, fih, fhh, bih, bhh))] :
        nl \in {1, 2}, inp \in 1 .. MaxFeatures, hid \in 1 .. MaxHidden,
        fih \in BaseValues \X Steps, fhh \in BaseValues \X Steps,
        bih \in BaseValues \X Steps, bhh \in BaseValues \X Steps }
    \cup
    { [layers |-> DefaultProjections,
       rnn |-> Some(Lstm(nl, FALSE, inp, hid, fih, fhh, fih, fhh))] :
        nl \in {1, 2}, inp \in 1 .. MaxFeatures, hid \in 1 .. MaxHidden,
        fih \in BaseValues \X Steps, fhh \in BaseValues \X Steps }
    \cup
    { [layers |-> DefaultProjections, rnn |-> None] }

NoFiles == [n \in {} |-> <<>>]
EmptyMetadata == [layers |-> [n \in {} |-> <<>>], rnn |-> None]

InitExport ==
    /\ IdleSpans
    /\ IdleConvert
    /\ IdleHarness
    /\ epc = "start"
    /\ model \in Models
    /\ next_layer = 1
    /\ files = NoFiles
    /\ metadata = EmptyMetadata
    /\ metadata_json = None
    /\ error = ""

\* main: GLiNER.from_pretrained, the rnn lookup, output_dir.mkdir
LoadModel ==
    /\ epc = "start"
    /\ IF IsNone(model.rnn)
       THEN /\ epc' = "raised"
            /\ error' = "RuntimeError: Model does not expose an RNN layer"
       ELSE /\ epc' = "layers"
            /\ error' = error
    /\ UNCHANGED <<model, next_layer, files, metadata, metadata_json, spanVars, convertVars, harnessVars>>

\* main: one entry of metadata["layers"], export_projection_layer(...)
ExportProjection ==
    /\ epc = "layers"
    /\ LET name == LayerNames[next_layer]
           r == ExportProjectionLayer(model.layers[next_layer], name, files)
       IN  /\ files' = r.files
           /\ IF r.raised
              THEN /\ epc' = "raised"
                   /\ error' = "AttributeError: 'NoneType' object has no attribute 'detach'"
                   /\ UNCHANGED <<metadata, next_layer>>
              ELSE /\ metadata' = [metadata EXCEPT !.layers =
                                     WriteFile(metadata.layers, name, Get(r.info))]
                   /\ next_layer' = next_layer + 1
                   /\ epc' = IF next_layer = Len(LayerNames) THEN "rnn" ELSE "layers"
                   /\ error' = error
    /\ UNCHANGED <<model, metadata_json, spanVars, convertVars, harnessVars>>

\* main: metadata["rnn"] = export_lstm(lstm, "rnn", output_dir)
ExportRnn ==
    /\ epc = "rnn"
    /\ LET r == ExportLstm(Get(model.rnn), "rnn", files)
       IN  /\ files' = r.files
           /\ IF r.raised
              THEN /\ epc' = "raised"
                   /\ error' = "RuntimeError: Only single-layer LSTMs are supported"
                   /\ UNCHANGED metadata
              ELSE /\ metadata' = [metadata EXCEPT !.rnn = r.info]
                   /\ epc' = "write"
                   /\ error' = error
    /\ UNCHANGED <<model, next_layer, metadata_json, spanVars, convertVars, harnessVars>>

\* main: json.dump(metadata, metadata.json)
WriteMetadata ==
    /\ epc = "write"
    /\ metadata_json' = Some(metadata)
    /\ epc' = "done"
    /\ UNCHANGED <<model, next_layer, files, metadata, error, spanVars, convertVars, harnessVars>>

NextExport == LoadModel \/ ExportProjection \/ ExportRnn \/ WriteMetadata

SpecExport == InitExport /\ [][NextExport]_vars

\* ----------------------------------------------- claims on the export

\* Reading a payload back: numpy.fromfile(path, "<f4").reshape(shape).
\* Four bytes, least significant first, to the float32 they encode (an
\* integer-valued one).
F32Value(b) ==
    LET sign == b[4] \div 128
        exp == (b[4] % 128) * 2 + b[3] \div 128
        mant == (b[3] % 128) * 65536 + b[2] * 256 + b[1]
        sig == Pow2(23) + mant
        e == exp - 127
        mag == IF exp = 0 /\ mant = 0 THEN 0
               ELSE IF e >= 23 THEN sig * Pow2(e - 23)
               ELSE sig \div Pow2(23 - e)
    IN  IF sign = 1 THEN -mag ELSE mag

LoadTensor(bytes, shape) ==
    [shape |-> shape,
     elems |-> [idx \in Indices(shape) |->
                  LET k == RavelRowMajor(idx, shape)
                  IN  F32Value(SubSeq(bytes, 4 * k + 1, 4 * k + 4))]]

\* A 1-D tensor of the given values.
Vec(values) ==
    [shape |-> <<Len(values)>>,
     elems |-> [idx \in Indices(<<Len(values)>>) |-> values[idx[1] + 1]]]

FcLinear(i, fc) == IF fc = "fc1" THEN model.layers[i].fc1 ELSE model.layers[i].fc2
FcInfo(i, fc) ==
    IF fc = "fc1" THEN metadata.layers[LayerNames[i]].fc1
    ELSE metadata.layers[LayerNames[i]].fc2

\* The projection layers recorded in the metadata so far.
Recorded == {i \in 1 .. Len(LayerNames) : LayerNames[i] \in DOMAIN metadata.layers}

LinearFileNames ==
    UNION { {LayerNames[i] \o "_fc1.weight.bin", LayerNames[i] \o "_fc1.bias.bin",
             LayerNames[i] \o "_fc2.weight.bin", LayerNames[i] \o "_fc2.bias.bin"} :
            i \in 1 .. Len(LayerNames) }

RnnFileNames(reverse) ==
    {"rnn_" \o Direction(reverse) \o ".weight_ih.bin",
     "rnn_" \o Direction(reverse) \o ".weight_hh.bin",
     "rnn_" \o Direction(reverse) \o ".bias.bin"}

\* The recorded entry of a direction, None when it has none.
RnnEntry(reverse) ==
    IF IsNone(metadata.rnn) THEN None
    ELSE IF reverse THEN Get(metadata.rnn).backward
    ELSE Get(metadata.rnn).forward

\* The bytes of the direction's bias file hold bias_ih + bias_hh.
BiasIsSum(reverse) ==
    LET lstm == Get(model.rnn)
        info == Get(RnnEntry(reverse))
        bias_ih == lstm.params["bias_ih_" \o Suffix(reverse)]
        bias_hh == lstm.params["bias_hh_" \o Suffix(reverse)]
        read == LoadTensor(files[info.bias], <<4 * lstm.hidden_size>>)
    IN  /\ info.bias = "rnn_" \o Direction(reverse) \o ".bias.bin"
        /\ Len(files[info.bias]) = 4 * 4 * lstm.hidden_size
        /\ \A i \in DOMAIN read.elems :
              read.elems[i] = bias_ih.elems[i] + bias_hh.elems[i]

\* C6: for every exported direction (forward, and backward exactly when
\* the LSTM is bidirectional) the one serialized bias tensor is the
\* elementwise sum of that direction's bias_ih and bias_hh ([1,2] and
\* [3,4] give [4,6]); the directory holds no other bias file of the rnn:
\* per direction exactly weight_ih, weight_hh and bias are written.
C6_LstmBiasIsSum ==
    /\ ~IsNone(metadata.rnn) =>
         /\ ~IsNone(RnnEntry(FALSE))
         /\ BiasIsSum(FALSE)
         /\ ~IsNone(RnnEntry(TRUE)) <=> Get(model.rnn).bidirectional
         /\ ~IsNone(RnnEntry(TRUE)) => BiasIsSum(TRUE)
         /\ DOMAIN files =
              LinearFileNames \cup RnnFileNames(FALSE)
                \cup (IF Get(model.rnn).bidirectional THEN RnnFileNames(TRUE) ELSE {})
    /\ LstmBias(Vec(<<1, 2>>), Vec(<<3, 4>>)) = Vec(<<4, 6>>)

\* A bidirectional LSTM was exported whose two forward biases are both
\* non-constant vectors and whose backward biases differ from them.
C6_Witness ==
    /\ epc = "done"
    /\ Get(model.rnn).bidirectional
    /\ LET p == Get(model.rnn).params
       IN  /\ p["bias_ih_l0"].elems[<<1>>] # p["bias_ih_l0"].elems[<<0>>]
           /\ p["bias_hh_l0"].elems[<<1>>] # p["bias_hh_l0"].elems[<<0>>]
           /\ p["bias_hh_l0_reverse"] # p["bias_hh_l0"]

\* The file of a recorded tensor read back with its recorded shape is
\* the tensor, and holds four bytes per element.
RoundTrips(name, shape, tensor) ==
    /\ name \in DOMAIN files
    /\ Len(files[name]) = 4 * NumElems(shape)
    /\ LoadTensor(files[name], shape) = tensor

\* C7: every tensor written by save_tensor reads back, from the raw
\* little-endian float32 payload and the shape the metadata records
\* (out_features x in_features, out_features, 4*hidden_size x input_size,
\* 4*hidden_size x hidden_size), as the original values in the original
\* order, and its file holds exactly shape-product elements.
C7_TensorRoundTrip ==
    /\ \A i \in Recorded : \A fc \in {"fc1", "fc2"} :
          LET info == FcInfo(i, fc)
              lin == FcLinear(i, fc)
          IN  /\ RoundTrips(info.weight, <<info.out_features, info.in_features>>,
                            lin.weight)
              /\ RoundTrips(info.bias, <<info.out_features>>, Get(lin.bias))
    /\ \A reverse \in BOOLEAN :
          ~IsNone(RnnEntry(reverse)) =>
            LET info == Get(RnnEntry(reverse))
                head == Get(metadata.rnn).head
                p == Get(model.rnn).params
            IN  /\ RoundTrips(info.weight_ih,
                              <<4 * head.hidden_size, head.input_size>>,
                              p["weight_ih_" \o Suffix(reverse)])
                /\ RoundTrips(info.weight_hh,
                              <<4 * head.hidden_size, head.hidden_size>>,
                              p["weight_hh_" \o Suffix(reverse)])

\* A 2 x 2 weight with four different values, a negative one among
\* them, was written and its layer recorded.
C7_Witness ==
    /\ epc = "done"
    /\ LET w == model.layers[1].fc1.weight
       IN  /\ w.shape = <<2, 2>>
           /\ w.elems[<<0, 1>>] # w.elems[<<1, 0>>]
           /\ w.elems[<<0, 0>>] < 0

\* C8: with an LSTM whose num_layers is not 1, export_lstm raises before
\* any rnn tensor file is written, nothing is recorded for the rnn, and
\* main ends without writing metadata.json.
C8_MultiLayerIsFatal ==
    (~IsNone(model.rnn) /\ Get(model.rnn).num_layers # 1) =>
        /\ epc \notin {"write", "done"}
        /\ metadata_json = None
        /\ IsNone(metadata.rnn)
        /\ DOMAIN files \cap (RnnFileNames(FALSE) \cup RnnFileNames(TRUE)) = {}
        /\ (epc = "raised" /\ Recorded = 1 .. Len(LayerNames)) =>
              error = "RuntimeError: Only single-layer LSTMs are supported"

\* A two-layer LSTM stopped the run after the projection layers had
\* been written.
C8_Witness ==
    /\ epc = "raised"
    /\ error = "RuntimeError: Only single-layer LSTMs are supported"
    /\ Get(model.rnn).num_layers = 2
    /\ DOMAIN files = LinearFileNames
    /\ metadata_json = None

\* C9: each exported linear layer emits a weight tensor, its in_features
\* and out_features and a bias tensor; a layer without a bias has the
\* bias tensor omitted and its export still succeeds.
C9_LinearWithoutBiasExports ==
    /\ \A i \in Recorded : \A fc \in {"fc1", "fc2"} :
          /\ FcInfo(i, fc).weight \in DOMAIN files
          /\ FcInfo(i, fc).in_features = FcLinear(i, fc).in_features
          /\ FcInfo(i, fc).out_features = FcLinear(i, fc).out_features
          /\ IF IsNone(FcLinear(i, fc).bias)
             THEN "bias" \notin DOMAIN FcInfo(i, fc)
             ELSE FcInfo(i, fc).bias \in DOMAIN files
    /\ \A i \in 1 .. Len(LayerNames) : \A fc \in {"fc1", "fc2"} :
          IsNone(FcLinear(i, fc).bias) => ~(epc = "raised" /\ next_layer = i)

\* =====================================================================
\* convert_to_coreml.py
\* =====================================================================

\* The submodules main converts, in order: the encoder always, then the
\* optional heads.
Heads == <<"span_rep", "classifier", "count_predictor", "count_embed">>
Submodules == {"encoder"} \cup {Heads[i] : i \in DOMAIN Heads}

\* args.skip_span_rep, args.skip_classifier, args.skip_count_predictor,
\* args.skip_count_embed
HeadSkippedOrEarlier(a, h) ==
    \/ a.skip_span_rep
    \/ h # "span_rep" /\ a.skip_classifier
    \/ h \in {"count_predictor", "count_embed"} /\ a.skip_count_predictor
    \/ h = "count_embed" /\ a.skip_count_embed
HeadSkipped(a, h) ==
    CASE h = "span_rep" -> a.skip_span_rep
      [] h = "classifier" -> a.skip_classifier
      [] h = "count_predictor" -> a.skip_count_predictor
      [] h = "count_embed" -> a.skip_count_embed

OutDir == "CoreMLArtifacts"

\* The destination of a submodule's package: out_dir / filename.
Destination(h, precision) ==
    <<OutDir,
      CASE h = "encoder" -> IF precision = "fp32" THEN "GLiNER2Encoder.mlpackage"
                            ELSE "GLiNER2Encoder_fp16.mlpackage"
        [] h = "span_rep" -> "GLiNER2SpanRep.mlpackage"
        [] h = "classifier" -> "GLiNER2Classifier.mlpackage"
        [] h = "count_predictor" -> "GLiNER2CountPredictor.mlpackage"
        [] h = "count_embed" -> "GLiNER2CountEmbed.mlpackage">>

\* relativize(path): None stays None, a path under out_dir loses the
\* directory, any other path is kept whole.
Relativize(path) ==
    IF IsNone(path) THEN None
    ELSE IF Get(path)[1] = OutDir THEN Some(Get(path)[2])
    ELSE Some(Get(path)[1] \o "/" \o Get(path)[2])

\* patch_deberta_scaled_sqrt(): the module after patching, and what the
\* returned restore() puts back (None: nothing).
PatchedDeberta(d) ==
    IF ~d.importable \/ d.scaled_size_sqrt = "absent" THEN d
    ELSE [d EXCEPT !.scaled_size_sqrt = "patched",
                   !.build_rpos = IF @ = "absent" THEN @ ELSE "patched"]

RestoreOf(d) ==
    IF ~d.importable \/ d.scaled_size_sqrt = "absent"
    THEN [scaled_size_sqrt |-> None, build_rpos |-> None]
    ELSE [scaled_size_sqrt |-> Some(d.scaled_size_sqrt),
          build_rpos |-> IF d.build_rpos = "absent" THEN None
                         ELSE Some(d.build_rpos)]

RestoredScaledOnly(d, r) ==
    [d EXCEPT !.scaled_size_sqrt = IF IsNone(r.scaled_size_sqrt) THEN @
                                   ELSE Get(r.scaled_size_sqrt)]
Restored(d, r) ==
    [d EXCEPT !.scaled_size_sqrt = IF IsNone(r.scaled_size_sqrt) THEN @
                                   ELSE Get(r.scaled_size_sqrt),
              !.build_rpos = IF IsNone(r.build_rpos) THEN @
                             ELSE Get(r.build_rpos)]

\* patch_count_embed_transformer(model)
PatchCountEmbedTransformer(m) ==
    IF IsNone(m.count_embed) THEN m
    ELSE IF IsNone(Get(m.count_embed).transformer) THEN m
    ELSE [m EXCEPT !.count_embed = Some([transformer |-> Some("exportable")])]

\* export_tokenizer(model, out_dir): the path returned, the directory
\* created under out_dir, the warning logged.
ExportTokenizerDirFirst(m) ==
    IF ~m.tokenizer
    THEN [path |-> None, created |-> {"tokenizer"},
          warning |-> {"Tokenizer not found on model.processor; skipping export"}]
    ELSE [path |-> Some(<<OutDir, "tokenizer">>), created |-> {"tokenizer"},
          warning |-> {}]
ExportTokenizerOf(m) ==
    IF ~m.tokenizer
    THEN [path |-> None, created |-> {},
          warning |-> {"Tokenizer not found on model.processor; skipping export"}]
    ELSE [path |-> Some(<<OutDir, "tokenizer">>), created |-> {"tokenizer"},
          warning |-> {}]

\* convert_module(name, ..., destination, precision), reached through
\* export_<submodule>: the exception raised ("" if none) and the package
\* saved.
ConvertModuleSwallowing(h, precision, tc) ==
    [raised |-> "",
     saved |-> IF h \in tc.broken THEN {} ELSE {Destination(h, precision)[2]},
     path |-> Some(Destination(h, precision))]
ConvertModule(h, precision, tc) ==
    IF h \in tc.broken
    THEN [raised |-> "convert " \o h, saved |-> {}, path |-> None]
    ELSE [raised |-> "", saved |-> {Destination(h, precision)[2]},
          path |-> Some(Destination(h, precision))]

\* main: the metadata dict written as the manifest. The values taken
\* from the command line and the model's config are the same in every
\* run modelled and are written as their source expressions.
ManifestOf(a, m, arts, tok) ==
    [model_id |-> "args.model_id",
     max_seq_len |-> "args.max_seq_len",
     max_schema_tokens |-> "args.max_schema_tokens",
     max_width |-> "model.config.max_width",
     hidden_size |-> "model.encoder.config.hidden_size",
     counting_layer |-> "model.config.counting_layer",
     max_count |-> "getattr(model.count_embed, 'max_count', 20)",
     precision |-> a.precision,
     artifacts |-> arts,
     tokenizer_dir |-> Relativize(tok),
     model_config |-> "model.config.to_dict()"]

\* ------------------------------------------------- conversion run (state)

ArgSets ==
    [skip_span_rep : BOOLEAN, skip_classifier : BOOLEAN,
     skip_count_predictor : BOOLEAN, skip_count_embed : BOOLEAN,
     export_tokenizer : BOOLEAN, precision : {"fp16", "fp32"}]

CountEmbeds ==
    {None, Some([transformer |-> None]), Some([transformer |-> Some("fused")])}

Debertas ==
    { [importable |-> FALSE, scaled_size_sqrt |-> "absent", build_rpos |-> "absent"],
      [importable |-> TRUE, scaled_size_sqrt |-> "absent", build_rpos |-> "original"],
      [importable |-> TRUE, scaled_size_sqrt |-> "original", build_rpos |-> "absent"],
      [importable |-> TRUE, scaled_size_sqrt |-> "original", build_rpos |-> "original"] }

\* The runs: every choice of skip flags, tokenizer and failing conversion
\* on a complete model; and every shape of count_embed, of the DeBERTa
\* module and of the load on a toolchain that converts everything.
InitConvert ==
    /\ IdleSpans
    /\ IdleExport
    /\ IdleHarness
    /\ cpc = "start"
    /\ \/ /\ args \in {a \in ArgSets : a.precision = "fp16"}
          /\ cmodel \in [count_embed : {Some([transformer |-> Some("fused")])},
                         tokenizer : BOOLEAN]
          /\ toolchain \in [load_fails : {FALSE}, broken : SUBSET Submodules]
          /\ deberta = [importable |-> TRUE, scaled_size_sqrt |-> "original",
                        build_rpos |-> "original"]
       \/ /\ args \in {a \in ArgSets :
                          /\ ~a.skip_span_rep /\ ~a.skip_classifier
                          /\ ~a.skip_count_predictor /\ a.export_tokenizer}
          /\ cmodel \in [count_embed : CountEmbeds, tokenizer : {TRUE}]
          /\ toolchain \in [load_fails : BOOLEAN, broken : {{}}]
          /\ deberta \in Debertas
    /\ restore = [scaled_size_sqrt |-> None, build_rpos |-> None]
    /\ next_head = 1
    /\ artifacts = [h \in {} |-> ""]
    /\ out_dir = {}
    /\ tokenizer_path = None
    /\ manifest = None
    /\ outcome = "running"
    /\ warned = {}

\* main: restore_deberta = patch_deberta_scaled_sqrt()
PatchDeberta ==
    /\ cpc = "start"
    /\ deberta' = PatchedDeberta(deberta)
    /\ restore' = RestoreOf(deberta)
    /\ cpc' = "load"
    /\ UNCHANGED <<args, cmodel, toolchain, next_head, artifacts, out_dir,
                   tokenizer_path, manifest, outcome, warned, spanVars, exportVars, harnessVars>>

\* main: Extractor.from_pretrained, model.eval,
\* patch_count_embed_transformer, ensure_dir(out_dir)
LoadExtractor ==
    /\ cpc = "load"
    /\ IF toolchain.load_fails
       THEN /\ outcome' = "raised: from_pretrained"
            /\ cpc' = "finally"
            /\ UNCHANGED cmodel
       ELSE /\ cmodel' = PatchCountEmbedTransformer(cmodel)
            /\ cpc' = "encoder"
            /\ UNCHANGED outcome
    /\ UNCHANGED <<args, toolchain, deberta, restore, next_head, artifacts,
                   out_dir, tokenizer_path, manifest, warned, spanVars, exportVars, harnessVars>>

\* main: artifacts["encoder"] = relativize(export_encoder(...))
ExportEncoder ==
    /\ cpc = "encoder"
    /\ LET r == ConvertModule("encoder", args.precision, toolchain)
       IN  IF r.raised # ""
           THEN /\ outcome' = "raised: " \o r.raised
                /\ cpc' = "finally"
                /\ UNCHANGED <<artifacts, out_dir>>
           ELSE /\ out_dir' = out_dir \cup r.saved
                /\ artifacts' = WriteFile(artifacts, "encoder",
                                          Get(Relativize(r.path)))
                /\ cpc' = "heads"
                /\ UNCHANGED outcome
    /\ UNCHANGED <<args, cmodel, toolchain, deberta, restore, next_head,
                   tokenizer_path, manifest, warned, spanVars, exportVars, harnessVars>>

\* main: if not args.skip_<head>: artifacts[<head>] = relativize(export_<head>(...))
ExportHead ==
    /\ cpc = "heads"
    /\ LET h == Heads[next_head]
           advance == /\ next_head' = next_head + 1
                      /\ cpc' = IF next_head = Len(Heads) THEN "tokenizer" ELSE "heads"
                      /\ UNCHANGED outcome
       IN  IF HeadSkipped(args, h)
           THEN advance /\ UNCHANGED <<artifacts, out_dir>>
           ELSE IF h = "count_embed" /\ IsNone(cmodel.count_embed)
           THEN /\ outcome' = "raised: AttributeError count_embed"
                /\ cpc' = "finally"
                /\ UNCHANGED <<artifacts, out_dir, next_head>>
           ELSE LET r == ConvertModule(h, args.precision, toolchain)
                IN  IF r.raised # ""
                    THEN /\ outcome' = "raised: " \o r.raised
                         /\ cpc' = "finally"
                         /\ UNCHANGED <<artifacts, out_dir, next_head>>
                    ELSE /\ advance
                         /\ out_dir' = out_dir \cup r.saved
                         /\ artifacts' = WriteFile(artifacts, h,
                                                   Get(Relativize(r.path)))
    /\ UNCHANGED <<args, cmodel, toolchain, deberta, restore, tokenizer_path,
                   manifest, warned, spanVars, exportVars, harnessVars>>

\* main: tokenizer_path = export_tokenizer(model, out_dir) if requested
ExportTokenizer ==
    /\ cpc = "tokenizer"
    /\ IF args.export_tokenizer
       THEN LET r == ExportTokenizerOf(cmodel)
            IN  /\ tokenizer_path' = r.path
                /\ out_dir' = out_dir \cup r.created
                /\ warned' = warned \cup r.warning
       ELSE UNCHANGED <<tokenizer_path, out_dir, warned>>
    /\ cpc' = "manifest"
    /\ UNCHANGED <<args, cmodel, toolchain, deberta, restore, next_head,
                   artifacts, manifest, outcome, spanVars, exportVars, harnessVars>>

\* main: the metadata dict, export_manifest.json, return 0
WriteManifest ==
    /\ cpc = "manifest"
    /\ IF IsNone(cmodel.count_embed)
       THEN /\ outcome' = "raised: AttributeError count_embed"
            /\ UNCHANGED <<manifest, out_dir>>
       ELSE /\ manifest' = Some(ManifestOf(args, cmodel, artifacts, tokenizer_path))
            /\ out_dir' = out_dir \cup {"export_manifest.json"}
            /\ outcome' = "returned 0"
    /\ cpc' = "finally"
    /\ UNCHANGED <<args, cmodel, toolchain, deberta, restore, next_head,
                   artifacts, tokenizer_path, warned, spanVars, exportVars, harnessVars>>

\* main: finally: restore_deberta()
RestoreDeberta ==
    /\ cpc = "finally"
    /\ deberta' = Restored(deberta, restore)
    /\ cpc' = "exit"
    /\ UNCHANGED <<args, cmodel, toolchain, restore, next_head, artifacts,
                   out_dir, tokenizer_path, manifest, outcome, warned, spanVars, exportVars, harnessVars>>

NextConvert ==
    \/ PatchDeberta
    \/ LoadExtractor
    \/ ExportEncoder
    \/ ExportHead
    \/ ExportTokenizer
    \/ WriteManifest
    \/ RestoreDeberta

SpecConvert == InitConvert /\ [][NextConvert]_vars

\* -------------------------------------------- claims on the conversion

\* The command line asked to skip head h.
SkipRequested(h) ==
    \/ h = "span_rep" /\ args.skip_span_rep
    \/ h = "classifier" /\ args.skip_classifier
    \/ h = "count_predictor" /\ args.skip_count_predictor
    \/ h = "count_embed" /\ args.skip_count_embed

\* The heads that come before position n in the order of conversion.
HeadsBefore(n) == {Heads[i] : i \in 1 .. Min(n - 1, Len(Heads))}

\* The heads main is past: all of them once the head loop is left.
HeadsPassed ==
    IF cpc \in {"start", "load", "encoder"} THEN {}
    ELSE IF cpc = "heads" THEN HeadsBefore(next_head)
    ELSE IF outcome \in {"running", "returned 0"} THEN HeadsBefore(Len(Heads) + 1)
    ELSE HeadsBefore(next_head)

\* C10: for every combination of skip flags, the manifest's artifact map
\* has an entry for a head exactly when the head was not skipped (and
\* one for the encoder); the step of a skipped head never raises, so a
\* failure of the run is never the effect of a skip; and every
\* non-skipped head main has passed is converted (its package is in the
\* output directory) and recorded, whatever heads were skipped.
C10_SkipOmitsOnlyThatHead ==
    /\ ~IsNone(manifest) =>
          /\ DOMAIN Get(manifest).artifacts =
                {"encoder"} \cup {h \in Submodules \ {"encoder"} : ~SkipRequested(h)}
          /\ \A h \in DOMAIN Get(manifest).artifacts :
                /\ Get(manifest).artifacts[h] = Destination(h, args.precision)[2]
                /\ Get(manifest).artifacts[h] \in out_dir
    /\ \A h \in Submodules \ {"encoder"} :
          SkipRequested(h) =>
             /\ h \notin DOMAIN artifacts
             /\ Destination(h, args.precision)[2] \notin out_dir
             /\ ~(outcome \notin {"running", "returned 0"}
                  /\ cpc \in {"finally", "exit"}
                  /\ next_head \in DOMAIN Heads
                  /\ Heads[next_head] = h
                  /\ "encoder" \in DOMAIN artifacts)
    /\ \A h \in HeadsPassed :
          ~SkipRequested(h) =>
             /\ h \in DOMAIN artifacts
             /\ Destination(h, args.precision)[2] \in out_dir
    /\ (/\ cpc = "exit"
        /\ ~toolchain.load_fails
        /\ ~IsNone(cmodel.count_embed)
        /\ \A h \in toolchain.broken : h # "encoder" /\ SkipRequested(h))
          => outcome = "returned 0" /\ ~IsNone(manifest)

\* The classifier was skipped, with a toolchain that could not have
\* converted it, and the run returned 0 with the other heads recorded.
C10_Witness ==
    /\ cpc = "exit"
    /\ outcome = "returned 0"
    /\ args.skip_classifier
    /\ ~args.skip_span_rep /\ ~args.skip_count_predictor /\ ~args.skip_count_embed
    /\ "classifier" \in toolchain.broken
    /\ DOMAIN Get(manifest).artifacts =
          {"encoder", "span_rep", "count_predictor", "count_embed"}

\* The Extractor lacks what patch_count_embed_transformer rewrites: it
\* has no count-embedding head, or the head has no transformer.
LacksTransformer(m) ==
    \/ IsNone(m.count_embed)
    \/ IsNone(Get(m.count_embed).transformer)

\* The same model with the transformer of its count-embedding head
\* rewritten.
Decomposed(m) == [m EXCEPT !.count_embed = Some([transformer |-> Some("exportable")])]

\* C20: when the count-embedding head or its transformer is absent, the
\* rewriter returns the model as it was; the run is not aborted by the
\* absence (it returns 0 when the load and every conversion succeed);
\* and the manifest written tells the model apart from a decomposed one.
C20_AbsenceSurfacedNotFatal ==
    /\ \A ce \in CountEmbeds, t \in BOOLEAN :
          LET m == [count_embed |-> ce, tokenizer |-> t]
          IN  LacksTransformer(m) => PatchCountEmbedTransformer(m) = m
    /\ (/\ cpc = "exit"
        /\ LacksTransformer(cmodel)
        /\ ~toolchain.load_fails
        /\ toolchain.broken = {}
        /\ args.skip_count_embed)
          => outcome = "returned 0"
    /\ (~IsNone(manifest) /\ LacksTransformer(cmodel))
          => Get(manifest) # ManifestOf(args, Decomposed(cmodel), artifacts,
                                        tokenizer_path)

\* The submodules main converts: the encoder and the heads not skipped.
Requested == {"encoder"} \cup {h \in Submodules \ {"encoder"} : ~SkipRequested(h)}

TokenizerWarning == "Tokenizer not found on model.processor; skipping export"

\* C22: when the tokenizer export is requested and the model has no
\* tokenizer, once main is past the export a warning has been logged, no
\* tokenizer directory exists and the tokenizer path is null; the run
\* then returns 0 (the load and the requested conversions succeeding)
\* with a manifest whose tokenizer_dir is null and whose artifacts list
\* every requested submodule. When the export is not requested, the
\* tokenizer path and the manifest's tokenizer_dir are null, no directory
\* is created and nothing is warned.
C22_TokenizerBestEffort ==
    /\ (args.export_tokenizer /\ ~cmodel.tokenizer) =>
          /\ "tokenizer" \notin out_dir
          /\ tokenizer_path = None
          /\ (cpc \in {"manifest", "finally", "exit"}
               /\ outcome \in {"running", "returned 0"}) =>
                 TokenizerWarning \in warned
          /\ (cpc = "exit" /\ ~toolchain.load_fails
               /\ toolchain.broken \cap Requested = {}
               /\ ~IsNone(cmodel.count_embed)) =>
                 /\ outcome = "returned 0"
                 /\ ~IsNone(manifest)
                 /\ Get(manifest).tokenizer_dir = None
                 /\ DOMAIN Get(manifest).artifacts = Requested
    /\ (cpc # "idle" /\ ~args.export_tokenizer) =>
          /\ tokenizer_path = None
          /\ "tokenizer" \notin out_dir
          /\ warned = {}
          /\ ~IsNone(manifest) => Get(manifest).tokenizer_dir = None

\* A run that asked for the tokenizer of a model that has none, and
\* returned 0 with all five submodules in the manifest.
C22_Witness ==
    /\ cpc = "exit"
    /\ args.export_tokenizer
    /\ ~cmodel.tokenizer
    /\ outcome = "returned 0"
    /\ warned = {TokenizerWarning}
    /\ Get(manifest).tokenizer_dir = None
    /\ DOMAIN Get(manifest).artifacts = Submodules
    /\ "tokenizer" \notin out_dir

\* C25: the manifest is the last thing written: it exists only once main
\* is past every conversion, with every requested submodule converted,
\* its package in the output directory, and no conversion of the run
\* failed; a run in which a requested conversion raises ends with that
\* error and without a manifest; and every path the manifest lists is a
\* package that was saved.
C25_ManifestAfterAllConversions ==
    /\ ~IsNone(manifest) =>
          /\ cpc \in {"finally", "exit"}
          /\ outcome = "returned 0"
          /\ "export_manifest.json" \in out_dir
          /\ toolchain.broken \cap Requested = {}
          /\ Get(manifest).artifacts = artifacts
          /\ \A h \in Requested :
                /\ h \in DOMAIN artifacts
                /\ artifacts[h] \in out_dir
          /\ \A h \in DOMAIN Get(manifest).artifacts :
                /\ h \notin toolchain.broken
                /\ Get(manifest).artifacts[h] \in out_dir
    /\ IsNone(manifest) => "export_manifest.json" \notin out_dir
    /\ (cpc \in {"finally", "exit"} /\ ~toolchain.load_fails
         /\ toolchain.broken \cap Requested # {}) =>
          /\ IsNone(manifest)
          /\ \E h \in toolchain.broken \cap Requested :
                outcome = "raised: convert " \o h

\* A run whose last requested conversion (count_embed) raised after the
\* other four packages were saved: an error, and no manifest.
C25_Witness ==
    /\ cpc = "exit"
    /\ toolchain.broken = {"count_embed"}
    /\ ~SkipRequested("count_embed")
    /\ DOMAIN artifacts = Submodules \ {"count_embed"}
    /\ outcome = "raised: convert count_embed"
    /\ IsNone(manifest)
    /\ "export_manifest.json" \notin out_dir

\* =====================================================================
\* generate_test_fixtures.py: main, generate_fixtures
\* =====================================================================

\* TEST_CASES: the ids and the thresholds (in tenths).
TEST_CASES ==
    << [id |-> "simple_person", threshold |-> Some(5)],
       [id |-> "multi_entity", threshold |-> Some(4)],
       [id |-> "technical", threshold |-> Some(3)],
       [id |-> "empty", threshold |-> Some(5)],
       [id |-> "long_text", threshold |-> Some(4)] >>

\* The records an --additional-tests file may hold: a new case, a case
\* that repeats an id of TEST_CASES, a case without a "threshold" key.
AdditionalCases ==
    { [id |-> "extra", threshold |-> Some(4)],
      [id |-> "simple_person", threshold |-> Some(5)],
      [id |-> "no_threshold", threshold |-> None] }

\* The longest --additional-tests list.
MaxAdditional == 2

RECURSIVE SeqsUpTo(_, _)
SeqsUpTo(S, n) ==
    IF n = 0 THEN {<<>>}
    ELSE LET shorter == SeqsUpTo(S, n - 1)
         IN  shorter \cup {Append(t, x) : t \in {u \in shorter : Len(u) = n - 1}, x \in S}

\* process_test_case(model, test_case), for the case at position i: the
\* exception it raises ("" if none) and the fixture it returns.
ProcessTestCase(m, tc, i) ==
    IF IsNone(tc.threshold) THEN [raised |-> "KeyError", fixture |-> <<>>]
    ELSE IF ~m.has_tokenizer THEN [raised |-> "AttributeError", fixture |-> <<>>]
    ELSE IF i \in m.failing THEN [raised |-> "RuntimeError", fixture |-> <<>>]
    ELSE [raised |-> "",
          fixture |-> [id |-> tc.id, threshold |-> Get(tc.threshold)]]

\* except Exception: the exceptions the handler of the loop catches.
HandlerCatchesAttributeErrorOnly(e) == e = "AttributeError"
HandlerCatches(e) == e \in {"KeyError", "AttributeError", "RuntimeError"}

\* fixtures["test_cases"].append(fixture)
PrependFixture(fx, fixture) ==
    [fx EXCEPT !.test_cases = <<fixture>> \o @]
AppendFixture(fx, fixture) ==
    [fx EXCEPT !.test_cases = Append(@, fixture)]

\* The fixtures dict generate_fixtures starts from.
EmptyFixtures(m) ==
    [metadata |->
        [model |-> IF IsNone(m.model_name) THEN "unknown" ELSE Get(m.model_name),
         tolerance |-> [token_ids |-> "0", attention_mask |-> "0",
                        hidden_states |-> "1e-4", entity_scores |-> "0.01"],
         generator_version |-> "1.0.0"],
     test_cases |-> <<>>]

\* ----------------------------------------------- fixture generation (state)

ModelNames == {None, Some("gliner2-base")}

\* The runs: a model that loads and has a tokenizer, with every list of
\* additional cases and every set of positions at which the model's calls
\* raise; and a model that does not load, or has no tokenizer.
InitFixtures ==
    /\ IdleSpans
    /\ IdleExport
    /\ IdleConvert
    /\ IdleTools
    /\ IdleCompare
    /\ IdleBench
    /\ IdlePercentile
    /\ gpc = "start"
    /\ \/ /\ gargs \in [additional_tests : SeqsUpTo(AdditionalCases, MaxAdditional)]
          /\ \E f \in SUBSET (1 .. Len(TEST_CASES) + Len(gargs.additional_tests)),
                n \in ModelNames :
                gmodel = [loads |-> TRUE, has_tokenizer |-> TRUE,
                          model_name |-> n, failing |-> f]
       \/ /\ gargs = [additional_tests |-> <<>>]
          /\ \E l \in BOOLEAN :
                gmodel = [loads |-> l, has_tokenizer |-> FALSE,
                          model_name |-> None, failing |-> {}]
    /\ test_cases = <<>>
    /\ case_idx = 0
    /\ fixtures = <<>>
    /\ warnings = <<>>
    /\ output_file = None

\* main: model = load_gliner_model(args.model)
LoadGlinerModel ==
    /\ gpc = "start"
    /\ gpc' = IF gmodel.loads THEN "load_cases" ELSE "exit 1"
    /\ UNCHANGED <<gargs, gmodel, test_cases, case_idx, fixtures, warnings,
                   output_file, spanVars, exportVars, convertVars, toolVars,
                   compareVars, benchVars, percentileVars>>

\* main: test_cases = TEST_CASES.copy(), extended by the additional tests;
\* generate_fixtures: the fixtures dict with its metadata
LoadTestCases ==
    /\ gpc = "load_cases"
    /\ test_cases' = TEST_CASES \o gargs.additional_tests
    /\ fixtures' = EmptyFixtures(gmodel)
    /\ case_idx' = 1
    /\ gpc' = "cases"
    /\ UNCHANGED <<gargs, gmodel, warnings, output_file, spanVars, exportVars,
                   convertVars, toolVars, compareVars, benchVars, percentileVars>>

\* generate_fixtures: one pass of the loop over test_cases
ProcessCase ==
    /\ gpc = "cases"
    /\ case_idx <= Len(test_cases)
    /\ LET tc == test_cases[case_idx]
           r == ProcessTestCase(gmodel, tc, case_idx)
       IN  IF r.raised = ""
           THEN /\ fixtures' = AppendFixture(fixtures, r.fixture)
                /\ case_idx' = case_idx + 1
                /\ UNCHANGED <<warnings, gpc>>
           ELSE IF HandlerCatches(r.raised)
           THEN /\ warnings' = Append(warnings, tc.id)
                /\ case_idx' = case_idx + 1
                /\ UNCHANGED <<fixtures, gpc>>
           ELSE /\ gpc' = "raised"
                /\ UNCHANGED <<fixtures, warnings, case_idx>>
    /\ UNCHANGED <<gargs, gmodel, test_cases, output_file, spanVars, exportVars,
                   convertVars, toolVars, compareVars, benchVars, percentileVars>>

\* generate_fixtures: json.dump(fixtures, f) once the loop is over
SaveFixtures ==
    /\ gpc = "cases"
    /\ case_idx > Len(test_cases)
    /\ output_file' = Some(fixtures)
    /\ gpc' = "done"
    /\ UNCHANGED <<gargs, gmodel, test_cases, case_idx, fixtures, warnings,
                   spanVars, exportVars, convertVars, toolVars, compareVars, benchVars,
                   percentileVars>>

NextFixtures == LoadGlinerModel \/ LoadTestCases \/ ProcessCase \/ SaveFixtures

SpecFixtures == InitFixtures /\ [][NextFixtures]_vars

\* --------------------------------------- claims on the fixture generation

\* The ids of a list of case records.
RECURSIVE IdsOf(_)
IdsOf(cs) == IF cs = <<>> THEN <<>> ELSE <<cs[1].id>> \o IdsOf(Tail(cs))

\* The case at position i fails in process_test_case.
CaseFails(i) ==
    \/ IsNone(test_cases[i].threshold)
    \/ ~gmodel.has_tokenizer
    \/ i \in gmodel.failing

\* The ids of the cases among the first n that do not fail, in input order.
RECURSIVE SurvivingIds(_)
SurvivingIds(n) ==
    IF n = 0 THEN <<>>
    ELSE SurvivingIds(n - 1) \o (IF CaseFails(n) THEN <<>> ELSE <<test_cases[n].id>>)

RECURSIVE FailingIds(_)
FailingIds(n) ==
    IF n = 0 THEN <<>>
    ELSE FailingIds(n - 1) \o (IF CaseFails(n) THEN <<test_cases[n].id>> ELSE <<>>)

C12_OrderPreserved ==
    /\ gpc \in {"cases", "done"} =>
          IdsOf(fixtures.test_cases) = SurvivingIds(case_idx - 1)
    /\ ~IsNone(output_file) =>
          IdsOf(Get(output_file).test_cases) = SurvivingIds(Len(test_cases))

\* A written fixture of at least three records, with a failed case
\* between two survivors and an additional case after the built-in ones.
C12_Witness ==
    /\ ~IsNone(output_file)
    /\ Len(Get(output_file).test_cases) >= 3
    /\ Len(test_cases) > Len(TEST_CASES)
    /\ \E i \in 2 .. Len(test_cases) - 1 :
          CaseFails(i) /\ ~CaseFails(i - 1) /\ ~CaseFails(i + 1)
    /\ ~CaseFails(Len(test_cases))

\* =====================================================================
\* compare_benchmarks.py
\* =====================================================================

\* f"{x:.2f}" of the quotient num / den: the quotient in hundredths,
\* rounded to the nearest, a tie to the even one.
Round2(num, den) ==
    LET h == (100 * num) \div den
        r == (100 * num) % den
    IN  IF 2 * r > den \/ (2 * r = den /\ h % 2 = 1) THEN h + 1 ELSE h

\* format_speedup(swift_val, python_val): the string returned, as its
\* wording and its factor in hundredths, or the exception raised.
FormatSpeedupTieFaster(swift_val, python_val) ==
    IF python_val = 0 THEN [text |-> "N/A", factor |-> 0]
    ELSE IF swift_val = 0 THEN [text |-> "ZeroDivisionError", factor |-> 0]
    ELSE IF python_val >= swift_val
         THEN [text |-> "x faster", factor |-> Round2(python_val, swift_val)]
         ELSE [text |-> "x slower", factor |-> Round2(swift_val, python_val)]
FormatSpeedup(swift_val, python_val) ==
    IF python_val = 0 THEN [text |-> "N/A", factor |-> 0]
    ELSE IF swift_val = 0 THEN [text |-> "ZeroDivisionError", factor |-> 0]
    ELSE IF python_val > swift_val
         THEN [text |-> "x faster", factor |-> Round2(python_val, swift_val)]
         ELSE [text |-> "x slower", factor |-> Round2(swift_val, python_val)]

\* print_comparison: metrics (label key, key, is_latency)
Metrics ==
    << <<"samples", FALSE>>, <<"totalRequests", FALSE>>,
       <<"averageLatencyMs", TRUE>>, <<"medianLatencyMs", TRUE>>,
       <<"p95LatencyMs", TRUE>>, <<"minLatencyMs", TRUE>>,
       <<"maxLatencyMs", TRUE>>, <<"charactersPerSecond", FALSE>> >>

MetricKeys == {Metrics[i][1] : i \in DOMAIN Metrics}

\* stats.get(key) if stats else None
StatValue(st, key) == IF IsNone(st) THEN None ELSE Get(st)[key]

\* f"{val:.2f}" if val is not None else "N/A"
FormatValue(v) ==
    IF IsNone(v) THEN [text |-> "N/A", hundredths |-> 0]
    ELSE [text |-> "number", hundredths |-> 100 * Get(v)]

\* print_comparison: the speedup column of one row
RowSpeedupNotInverted(key, is_latency, python_val, swift_val) ==
    IF is_latency /\ ~IsNone(python_val) /\ ~IsNone(swift_val)
    THEN FormatSpeedup(Get(swift_val), Get(python_val))
    ELSE IF key = "charactersPerSecond" /\ ~IsNone(python_val) /\ ~IsNone(swift_val)
    THEN FormatSpeedup(Get(swift_val), Get(python_val))
    ELSE [text |-> "-", factor |-> 0]
RowSpeedup(key, is_latency, python_val, swift_val) ==
    IF is_latency /\ ~IsNone(python_val) /\ ~IsNone(swift_val)
    THEN FormatSpeedup(Get(swift_val), Get(python_val))
    ELSE IF key = "charactersPerSecond" /\ ~IsNone(python_val) /\ ~IsNone(swift_val)
    THEN FormatSpeedup(Get(python_val), Get(swift_val))
    ELSE [text |-> "-", factor |-> 0]

\* print_comparison: one row of the table
Row(i, py, sw) ==
    LET key == Metrics[i][1]
        python_val == StatValue(py, key)
        swift_val == StatValue(sw, key)
    IN  [key |-> key,
         python |-> FormatValue(python_val),
         swift |-> FormatValue(swift_val),
         speedup |-> RowSpeedup(key, Metrics[i][2], python_val, swift_val)]

\* print_comparison: the rows printed from row i on; a row whose speedup
\* raises is not printed and ends the table.
RECURSIVE RowsFrom(_, _, _)
RowsFrom(i, py, sw) ==
    IF i > Len(Metrics) THEN <<>>
    ELSE IF Row(i, py, sw).speedup.text = "ZeroDivisionError" THEN <<>>
    ELSE <<Row(i, py, sw)>> \o RowsFrom(i + 1, py, sw)

\* print_comparison: the summary line ("" if none is printed)
Winner(py, sw) ==
    IF IsNone(py) \/ IsNone(sw) THEN [text |-> "", factor |-> 0]
    ELSE LET a == StatValue(py, "averageLatencyMs")
             b == StatValue(sw, "averageLatencyMs")
             avg_py == IF IsNone(a) THEN 0 ELSE Get(a)
             avg_sw == IF IsNone(b) THEN 0 ELSE Get(b)
         IN  IF avg_py > 0 /\ avg_sw > 0
             THEN IF avg_sw < avg_py
                  THEN [text |-> "Swift is x faster", factor |-> Round2(avg_py, avg_sw)]
                  ELSE [text |-> "Python is x faster", factor |-> Round2(avg_sw, avg_py)]
             ELSE [text |-> "", factor |-> 0]

\* print_comparison(python_stats, swift_stats): what is printed, and the
\* exception raised ("" if none).
PrintComparisonOf(py, sw) ==
    IF IsNone(py) /\ IsNone(sw)
    THEN [rows |-> <<>>, winner |-> [text |-> "", factor |-> 0],
          note |-> "No benchmarks completed", raised |-> ""]
    ELSE LET rows == RowsFrom(1, py, sw)
         IN  IF Len(rows) < Len(Metrics)
             THEN [rows |-> rows, winner |-> [text |-> "", factor |-> 0],
                   note |-> "", raised |-> "ZeroDivisionError"]
             ELSE [rows |-> rows, winner |-> Winner(py, sw),
                   note |-> "", raised |-> ""]

\* run_python_benchmark(args): the subprocesses started, the stats
\* returned, the exception that leaves the function ("" if none).
RunPythonBenchmarkRetrying(a, rt) ==
    IF a.skip_python
    THEN [started |-> <<>>, stats |-> None, raised |-> ""]
    ELSE IF rt.python.exit = "ok"
    THEN [started |-> <<"python benchmarks.py">>,
          stats |-> rt.python.result_file, raised |-> ""]
    ELSE [started |-> <<"python benchmarks.py", "python benchmarks.py">>,
          stats |-> None, raised |-> ""]
RunPythonBenchmarkOf(a, rt) ==
    IF a.skip_python
    THEN [started |-> <<>>, stats |-> None, raised |-> ""]
    ELSE [started |-> <<"python benchmarks.py">>,
          stats |-> IF rt.python.exit = "ok" THEN rt.python.result_file ELSE None,
          raised |-> ""]

\* run_swift_benchmark(args)
RunSwiftBenchmarkOf(a, rt) ==
    IF a.skip_swift
    THEN [started |-> <<>>, stats |-> None, raised |-> ""]
    ELSE IF rt.swift.build = "nonzero"
    THEN [started |-> <<"swift build">>, stats |-> None, raised |-> ""]
    ELSE IF rt.swift.build = "not found"
    THEN [started |-> <<"swift build">>, stats |-> None,
          raised |-> "FileNotFoundError"]
    ELSE IF rt.swift.exit = "nonzero"
    THEN [started |-> <<"swift build", "swift run">>, stats |-> None, raised |-> ""]
    ELSE IF rt.swift.exit = "not found"
    THEN [started |-> <<"swift build", "swift run">>, stats |-> None,
          raised |-> "FileNotFoundError"]
    ELSE [started |-> <<"swift build", "swift run">>,
          stats |-> rt.swift.result_file, raised |-> ""]

\* ----------------------------------------------------- comparison (state)

\* Latency figures of a summary: average, median, p95, min, max (ms).
LatencyProfiles ==
    { <<0, 0, 0, 0, 0>>, <<2, 2, 3, 1, 3>>, <<3, 2, 4, 2, 4>>, <<4, 4, 4, 4, 4>> }

\* charactersPerSecond of a summary.
Throughputs == {0, 50, 100}

\* A summary file; has_median: the summary carries a medianLatencyMs key.
StatsOf(l, c, has_median) ==
    [k \in MetricKeys |->
        CASE k = "samples" -> Some(3)
          [] k = "totalRequests" -> Some(15)
          [] k = "averageLatencyMs" -> Some(l[1])
          [] k = "medianLatencyMs" -> IF has_median THEN Some(l[2]) ELSE None
          [] k = "p95LatencyMs" -> Some(l[3])
          [] k = "minLatencyMs" -> Some(l[4])
          [] k = "maxLatencyMs" -> Some(l[5])
          [] k = "charactersPerSecond" -> Some(c)]

ExitKinds == {"ok", "nonzero", "not found"}

\* The runs: both runtimes succeed, with every pair of summaries; and
\* every way for the invocations to be skipped, fail or leave no file.
InitCompare ==
    /\ IdleSpans
    /\ IdleExport
    /\ IdleConvert
    /\ IdleTools
    /\ IdleFixtures
    /\ IdleBench
    /\ IdlePercentile
    /\ xpc = "start"
    /\ \/ /\ xargs = [skip_python |-> FALSE, skip_swift |-> FALSE,
                      fixtures_exist |-> TRUE]
          /\ \E lp, ls \in LatencyProfiles, cp, cs \in Throughputs, m \in BOOLEAN :
                runtimes =
                   [python |-> [exit |-> "ok",
                                result_file |-> Some(StatsOf(lp, cp, TRUE))],
                    swift |-> [build |-> "ok", exit |-> "ok",
                               result_file |-> Some(StatsOf(ls, cs, m))]]
       \/ /\ xargs \in [skip_python : BOOLEAN, skip_swift : BOOLEAN,
                        fixtures_exist : BOOLEAN]
          /\ \E pe, sb, se \in ExitKinds, pf, sf \in BOOLEAN :
                runtimes =
                   [python |-> [exit |-> pe,
                                result_file |->
                                   IF pf THEN Some(StatsOf(<<3, 2, 4, 2, 4>>, 100, TRUE))
                                   ELSE None],
                    swift |-> [build |-> sb, exit |-> se,
                               result_file |->
                                   IF sf THEN Some(StatsOf(<<2, 2, 3, 1, 3>>, 50, TRUE))
                                   ELSE None]]
    /\ invocations = <<>>
    /\ python_stats = None
    /\ swift_stats = None
    /\ table = <<>>
    /\ xoutcome = "running"

\* main: the fixtures file must exist
CheckFixtures ==
    /\ xpc = "start"
    /\ IF xargs.fixtures_exist
       THEN xpc' = "python" /\ UNCHANGED xoutcome
       ELSE xpc' = "done" /\ xoutcome' = "exit 1"
    /\ UNCHANGED <<xargs, runtimes, invocations, python_stats, swift_stats,
                   table, spanVars, exportVars, convertVars, toolVars, fixtureVars,
                   benchVars, percentileVars>>

\* main: python_stats = run_python_benchmark(args)
RunPythonBenchmark ==
    /\ xpc = "python"
    /\ LET r == RunPythonBenchmarkOf(xargs, runtimes)
       IN  /\ invocations' = invocations \o r.started
           /\ python_stats' = r.stats
    /\ xpc' = "swift"
    /\ UNCHANGED <<xargs, runtimes, swift_stats, table, xoutcome, spanVars,
                   exportVars, convertVars, toolVars, fixtureVars, benchVars,
                   percentileVars>>

\* main: swift_stats = run_swift_benchmark(args)
RunSwiftBenchmark ==
    /\ xpc = "swift"
    /\ LET r == RunSwiftBenchmarkOf(xargs, runtimes)
       IN  /\ invocations' = invocations \o r.started
           /\ swift_stats' = r.stats
           /\ IF r.raised = ""
              THEN xpc' = "print" /\ UNCHANGED xoutcome
              ELSE xpc' = "done" /\ xoutcome' = "raised: " \o r.raised
    /\ UNCHANGED <<xargs, runtimes, python_stats, table, spanVars, exportVars,
                   convertVars, toolVars, fixtureVars, benchVars, percentileVars>>

\* main: print_comparison(python_stats, swift_stats)
PrintComparison ==
    /\ xpc = "print"
    /\ LET r == PrintComparisonOf(python_stats, swift_stats)
       IN  /\ table' = [rows |-> r.rows, winner |-> r.winner, note |-> r.note]
           /\ xoutcome' = IF r.raised = "" THEN "returned"
                          ELSE "raised: " \o r.raised
    /\ xpc' = "done"
    /\ UNCHANGED <<xargs, runtimes, invocations, python_stats, swift_stats,
                   spanVars, exportVars, convertVars, toolVars, fixtureVars, benchVars,
                   percentileVars>>

NextCompare ==
    CheckFixtures \/ RunPythonBenchmark \/ RunSwiftBenchmark \/ PrintComparison

SpecCompare == InitCompare /\ [][NextCompare]_vars

\* ------------------------------------------------ claims on the comparison

\* A runtime's invocation is missing or failed: skipped, exited non-zero,
\* could not be started, or left no result file.
PythonMissing ==
    \/ xargs.skip_python
    \/ runtimes.python.exit # "ok"
    \/ IsNone(runtimes.python.result_file)

SwiftMissing ==
    \/ xargs.skip_swift
    \/ runtimes.swift.build # "ok"
    \/ runtimes.swift.exit # "ok"
    \/ IsNone(runtimes.swift.result_file)

\* Every row of the table shows "N/A" for one runtime and a number for
\* the other.
ShowsOnlyPython ==
    /\ Len(table.rows) = Len(Metrics)
    /\ \A i \in DOMAIN table.rows :
          /\ table.rows[i].python.text = "number"
          /\ table.rows[i].swift.text = "N/A"

ShowsOnlySwift ==
    /\ Len(table.rows) = Len(Metrics)
    /\ \A i \in DOMAIN table.rows :
          /\ table.rows[i].python.text = "N/A"
          /\ table.rows[i].swift.text = "number"

\* C13: when a runtime's invocation is missing or fails in any of the
\* ways above, the comparison still returns: the other runtime has been
\* invoked (unless skipped) and its figures are reported, with N/A in the
\* failed runtime's column.
C13_FailedRuntimeDegrades ==
    (xpc = "done" /\ xargs.fixtures_exist /\ (PythonMissing \/ SwiftMissing)) =>
       /\ xoutcome = "returned"
       /\ ~xargs.skip_python =>
             \E i \in DOMAIN invocations : invocations[i] = "python benchmarks.py"
       /\ ~xargs.skip_swift =>
             \E i \in DOMAIN invocations : invocations[i] = "swift build"
       /\ (SwiftMissing /\ ~PythonMissing) => ShowsOnlyPython
       /\ (PythonMissing /\ ~SwiftMissing) => ShowsOnlySwift

\* The two throughputs of a finished comparison that printed every row.
PythonCps == Get(Get(python_stats)["charactersPerSecond"])
SwiftCps == Get(Get(swift_stats)["charactersPerSecond"])

BothReported ==
    /\ xpc = "done"
    /\ xoutcome = "returned"
    /\ ~IsNone(python_stats)
    /\ ~IsNone(swift_stats)
    /\ Len(table.rows) = Len(Metrics)

\* C15: in the throughput row the runtime with the higher characters per
\* second is the favoured one, by the factor max/min: "faster" (Swift
\* ahead) exactly when Swift's throughput is the higher, otherwise
\* "slower"; python 100 against swift 50 reads "2.00x slower".
C15_ThroughputInverted ==
    (BothReported /\ PythonCps > 0 /\ SwiftCps > 0) =>
       LET row == table.rows[Len(Metrics)]
       IN  /\ row.key = "charactersPerSecond"
           /\ row.speedup.factor =
                 Round2(Max(PythonCps, SwiftCps), Min(PythonCps, SwiftCps))
           /\ row.speedup.text = "x faster" <=> SwiftCps > PythonCps
           /\ row.speedup.text = "x slower" <=> SwiftCps <= PythonCps
           /\ (PythonCps = 100 /\ SwiftCps = 50) =>
                 row.speedup = [text |-> "x slower", factor |-> 200]

\* Python at 100 characters per second, Swift at 50, every row printed.
C15_Witness ==
    /\ BothReported
    /\ PythonCps = 100
    /\ SwiftCps = 50
    /\ table.rows[Len(Metrics)].speedup.text = "x slower"

LatencyKeys ==
    {"averageLatencyMs", "medianLatencyMs", "p95LatencyMs", "minLatencyMs",
     "maxLatencyMs"}

\* C16: every latency row printed with both (positive) values present
\* says "faster" with the factor python/swift exactly when Swift's
\* latency is strictly the smaller, and otherwise "slower" with the
\* factor swift/python.
C16_LatencySpeedup ==
    (xpc = "done" /\ ~IsNone(python_stats) /\ ~IsNone(swift_stats)) =>
       \A i \in DOMAIN table.rows :
          LET key == table.rows[i].key
              py == Get(python_stats)[key]
              sw == Get(swift_stats)[key]
          IN  (/\ key \in LatencyKeys
               /\ ~IsNone(py) /\ ~IsNone(sw)
               /\ Get(py) > 0 /\ Get(sw) > 0) =>
                 IF Get(sw) < Get(py)
                 THEN table.rows[i].speedup =
                         [text |-> "x faster", factor |-> Round2(Get(py), Get(sw))]
                 ELSE table.rows[i].speedup =
                         [text |-> "x slower", factor |-> Round2(Get(sw), Get(py))]

\* A table with a latency row where Swift is faster (3 ms against 2 ms,
\* 1.50x), one where the two are equal (1.00x slower) and, the summary
\* lacking a median for neither, all five latency rows compared.
C16_Witness ==
    /\ BothReported
    /\ Get(python_stats)["averageLatencyMs"] = Some(3)
    /\ Get(swift_stats)["averageLatencyMs"] = Some(2)
    /\ Get(python_stats)["medianLatencyMs"] = Get(swift_stats)["medianLatencyMs"]
    /\ table.rows[3].speedup = [text |-> "x faster", factor |-> 150]
    /\ table.rows[4].speedup = [text |-> "x slower", factor |-> 100]
    /\ \A i \in 3 .. 7 : table.rows[i].speedup.text # "-"

\* The positions of a command in the log of subprocesses started.
StartsOf(cmd) == {i \in DOMAIN invocations : invocations[i] = cmd}

\* C24: within one comparison run each runtime's benchmark is started at
\* most once (so is the Swift build), every start of the Python benchmark
\* precedes every start of a Swift command, the Swift benchmark is only
\* started after its build, a runtime that exited non-zero has been
\* started exactly once, and by the time the next step of main runs the
\* subprocesses of the previous one have returned: the log only grows,
\* and never by a Python start once main has moved on to Swift.
C24_InvokedOncePythonFirst ==
    /\ \A cmd \in {"python benchmarks.py", "swift build", "swift run"} :
          Cardinality(StartsOf(cmd)) <= 1
    /\ \A i \in StartsOf("python benchmarks.py") :
          \A j \in StartsOf("swift build") \cup StartsOf("swift run") : i < j
    /\ \A j \in StartsOf("swift run") : \E i \in StartsOf("swift build") : i < j
    /\ (xpc \in {"swift", "print", "done"} /\ xargs.fixtures_exist
           /\ ~xargs.skip_python /\ runtimes.python.exit = "nonzero") =>
          Cardinality(StartsOf("python benchmarks.py")) = 1
    /\ (xpc \in {"print", "done"} /\ xargs.fixtures_exist /\ ~xargs.skip_swift
           /\ runtimes.swift.build = "ok" /\ runtimes.swift.exit = "nonzero"
           /\ xoutcome \in {"running", "returned"}) =>
          Cardinality(StartsOf("swift run")) = 1
    /\ xpc \in {"start", "python"} => invocations = <<>>

\* The Python benchmark exited non-zero, the Swift build and benchmark
\* both ran after it, and the comparison returned.
C24_Witness ==
    /\ xpc = "done"
    /\ xoutcome = "returned"
    /\ runtimes.python.exit = "nonzero"
    /\ invocations = <<"python benchmarks.py", "swift build", "swift run">>
    /\ IsNone(python_stats)
    /\ ~IsNone(swift_stats)

\* C27: whenever both runtimes returned a summary whose values are all
\* present and non-negative, print_comparison returns without raising and
\* every latency or throughput row with a zero on either side reads N/A.
C27_ZeroYieldsNotAvailable ==
    (/\ xpc = "done"
     /\ xargs.fixtures_exist
     /\ ~IsNone(python_stats)
     /\ ~IsNone(swift_stats)
     /\ \A k \in MetricKeys :
           /\ ~IsNone(Get(python_stats)[k]) /\ Get(Get(python_stats)[k]) >= 0
           /\ ~IsNone(Get(swift_stats)[k]) /\ Get(Get(swift_stats)[k]) >= 0) =>
       /\ xoutcome = "returned"
       /\ Len(table.rows) = Len(Metrics)
       /\ \A i \in DOMAIN table.rows :
             LET key == table.rows[i].key
             IN  (/\ key \in LatencyKeys \cup {"charactersPerSecond"}
                  /\ \/ Get(Get(python_stats)[key]) = 0
                     \/ Get(Get(swift_stats)[key]) = 0) =>
                    table.rows[i].speedup.text = "N/A"

\* =====================================================================
\* benchmarks.py: percentile
\* =====================================================================

\* sorted(values)
RECURSIVE InsertAsc(_, _)
InsertAsc(x, sorted) ==
    IF sorted = <<>> THEN <<x>>
    ELSE IF x < Head(sorted) THEN <<x>> \o sorted
    ELSE <<Head(sorted)>> \o InsertAsc(x, Tail(sorted))

RECURSIVE SortAsc(_)
SortAsc(vs) ==
    IF vs = <<>> THEN <<>>
    ELSE InsertAsc(vs[Len(vs)], SortAsc(SubSeq(vs, 1, Len(vs) - 1)))

\* percentile(values, q), q given in hundredths: the result times 100
\* (rank * 100 = (n - 1) * q is an integer, so the product is exact).
PercentileLowerRank(vs, qq) ==
    IF vs = <<>> THEN 0
    ELSE LET ordered == SortAsc(vs)
             lower == ((Len(ordered) - 1) * qq) \div 100
         IN  100 * ordered[lower + 1]
Percentile(vs, qq) ==
    IF vs = <<>> THEN 0
    ELSE LET ordered == SortAsc(vs)
             rank == (Len(ordered) - 1) * qq
             lower == rank \div 100
             upper == Min(Len(ordered) - 1, lower + 1)
             remainder == rank - 100 * lower
         IN  IF lower = upper THEN 100 * ordered[lower + 1]
             ELSE ordered[lower + 1] * (100 - remainder)
                     + ordered[upper + 1] * remainder

\* ------------------------------------------- percentile (floating point)
\* Python's float is binary floating point: every operation returns the
\* representable value nearest to the exact result, a tie going to the
\* even significand. CPython's significand has 53 bits; the operators
\* below round in the same way at a significand of MantissaBits bits. A
\* float is written [m |-> m, e |-> e] for m * 2^e, with m odd, or zero.

MantissaBits == 6

RECURSIVE Normal(_, _)
Normal(m, e) ==
    IF m = 0 THEN [m |-> 0, e |-> 0]
    ELSE IF m % 2 = 0 THEN Normal(m \div 2, e + 1)
    ELSE [m |-> m, e |-> e]

\* The float nearest to m * 2^e (m >= 0).
FloatRound(m, e) ==
    LET k == IF m = 0 THEN 0 ELSE Max(ILog2(m) + 1 - MantissaBits, 0)
        q == m \div Pow2(k)
        r == m % Pow2(k)
        up == k > 0 /\ (2 * r > Pow2(k) \/ (2 * r = Pow2(k) /\ q % 2 = 1))
    IN  Normal(IF up THEN q + 1 ELSE q, e + k)

\* x + y, x - y (x >= y), x * y
FloatAdd(x, y) ==
    LET e == Min(x.e, y.e)
    IN  FloatRound(x.m * Pow2(x.e - e) + y.m * Pow2(y.e - e), e)
FloatSub(x, y) ==
    LET e == Min(x.e, y.e)
    IN  FloatRound(x.m * Pow2(x.e - e) - y.m * Pow2(y.e - e), e)
FloatMul(x, y) == FloatRound(x.m * y.m, x.e + y.e)

\* x <= y
FloatLeq(x, y) ==
    LET e == Min(x.e, y.e)
    IN  x.m * Pow2(x.e - e) <= y.m * Pow2(y.e - e)

\* float(n) of an integer, int(x) of a float
FloatOfInt(n) == FloatRound(n, 0)
IntOfFloat(x) == IF x.e >= 0 THEN x.m * Pow2(x.e) ELSE x.m \div Pow2(0 - x.e)

\* The float of the decimal literal num / den (0.95 is 95 / 100): the
\* quotient to MantissaBits + 2 bits and a sticky bit, then rounded.
FloatOfRatio(num, den) ==
    LET s == MantissaBits + 2 + ILog2(den) + 1
        q == (num * Pow2(s)) \div den
        sticky == IF (num * Pow2(s)) % den = 0 THEN 0 ELSE 1
    IN  FloatRound(2 * q + sticky, 0 - s - 1)

\* percentile(values, q) as the floating-point operations evaluate it;
\* the values are whole numbers of milliseconds, q is given in
\* hundredths.
PercentileFloat(vs, qq) ==
    IF vs = <<>> THEN FloatOfInt(0)
    ELSE LET ordered == SortAsc(vs)
             rank == FloatMul(FloatOfInt(Len(ordered) - 1), FloatOfRatio(qq, 100))
             lower == IntOfFloat(rank)
             upper == Min(Len(ordered) - 1, lower + 1)
             remainder == FloatSub(rank, FloatOfInt(lower))
         IN  IF lower = upper THEN FloatOfInt(ordered[lower + 1])
             ELSE FloatAdd(FloatMul(FloatOfInt(ordered[lower + 1]),
                                    FloatSub(FloatOfInt(1), remainder)),
                           FloatMul(FloatOfInt(ordered[upper + 1]), remainder))

\* ------------------------------------------------------ percentile (state)

\* Latency samples, in milliseconds.
SampleValues == {10, 20, 30, 37, 40, 100}

\* q, in hundredths.
Quantiles == {0, 25, 50, 95, 100}

\* The longest list of samples drawn from SampleValues.
MaxSamples == 3

InitPercentile ==
    /\ IdleSpans
    /\ IdleExport
    /\ IdleConvert
    /\ IdleTools
    /\ IdleFixtures
    /\ IdleCompare
    /\ IdleBench
    /\ qpc = "called"
    /\ pvalues \in SeqsUpTo(SampleValues, MaxSamples)
                     \cup {<<10, 20, 30, 40, 100>>, <<100, 20, 40, 10, 30>>}
    /\ quantile \in Quantiles
    /\ estimate = None
    /\ returned = None

\* percentile(values, q)
ComputePercentile ==
    /\ qpc = "called"
    /\ estimate' = Some(Percentile(pvalues, quantile))
    /\ returned' = Some(PercentileFloat(pvalues, quantile))
    /\ qpc' = "returned"
    /\ UNCHANGED <<pvalues, quantile, spanVars, exportVars, convertVars, toolVars,
                   fixtureVars, compareVars, benchVars>>

NextPercentile == ComputePercentile

SpecPercentile == InitPercentile /\ [][NextPercentile]_vars

\* ------------------------------------------------ claims on the percentile

\* The k-th smallest of pvalues (k from 1), by counting.
KthSmallest(k) ==
    CHOOSE v \in {pvalues[i] : i \in DOMAIN pvalues} :
       /\ Cardinality({i \in DOMAIN pvalues : pvalues[i] < v}) < k
       /\ Cardinality({i \in DOMAIN pvalues : pvalues[i] <= v}) >= k

C29_PercentileWithinRange ==
    qpc = "returned" =>
       IF pvalues = <<>> THEN returned = Some(FloatOfInt(0))
       ELSE LET least == FloatOfInt(KthSmallest(1))
                greatest == FloatOfInt(KthSmallest(Len(pvalues)))
            IN  /\ FloatLeq(least, Get(returned))
                /\ FloatLeq(Get(returned), greatest)
                /\ quantile = 0 => Get(returned) = least
                /\ quantile = 100 => Get(returned) = greatest

\* =====================================================================
\* benchmarks.py: main, run_benchmarks; prepare_benchmark_data.py: validate
\* Thresholds of benchmark samples are written in hundredths (0.45 is
\* 45), latencies in milliseconds.
\* =====================================================================

\* sample.get("threshold", 0.3)
DefaultSampleThreshold == 30

\* float(sample.get("threshold", 0.4))
DefaultValidatedThreshold == 40

\* The JSON values of a sample's labels and threshold: a list, a number,
\* or a string that is neither a list nor the text of a number.
JsonList(items) == [type |-> "list", value |-> items]
JsonNumber(n) == [type |-> "number", value |-> n]
JsonString(text) == [type |-> "string", value |-> text]

\* validate(sample): the exception raised ("" if none) and the record
\* returned. An absent key is None; the id, the text and the labels of
\* the samples modelled are strings, which str() returns as they are.
Validate(sample) ==
    IF IsNone(sample.id) \/ IsNone(sample.text) \/ IsNone(sample.labels)
    THEN [raised |-> "SystemExit: missing keys", sample |-> <<>>]
    ELSE IF Get(sample.labels).type # "list" \/ Get(sample.labels).value = <<>>
    THEN [raised |-> "SystemExit: no label", sample |-> <<>>]
    ELSE IF ~IsNone(sample.threshold) /\ Get(sample.threshold).type # "number"
    THEN [raised |-> "ValueError: could not convert string to float",
          sample |-> <<>>]
    ELSE [raised |-> "",
          sample |-> [id |-> Get(sample.id), text |-> Get(sample.text),
                      labels |-> Get(sample.labels).value,
                      threshold |-> IF IsNone(sample.threshold)
                                    THEN DefaultValidatedThreshold
                                    ELSE Get(sample.threshold).value]]

\* run_benchmarks: threshold = sample.get("threshold", 0.3)
SampleThreshold(sample) ==
    IF IsNone(sample.threshold) THEN DefaultSampleThreshold
    ELSE Get(sample.threshold)

\* range(max(warmup, 0)), range(max(iterations, 1))
WarmupPasses(a) == Max(a.warmup, 0)
MeasuredPassesFromZero(a) == Max(a.iterations, 0)
MeasuredPasses(a) == Max(a.iterations, 1)

\* run_benchmarks: the kind of the next pass over a sample, after w_done
\* warmup passes and i_done measured ones.
NextPassKindMeasuredFirst(w_done, i_done, a) ==
    IF i_done < MeasuredPasses(a) THEN "measured" ELSE "warmup"
NextPassKind(w_done, i_done, a) ==
    IF w_done < WarmupPasses(a) THEN "warmup" ELSE "measured"

RECURSIVE SumSeq(_)
SumSeq(vs) == IF vs = <<>> THEN 0 ELSE Head(vs) + SumSeq(Tail(vs))

\* A quotient kept exact.
Frac(n, d) == [num |-> n, den |-> d]

\* statistics.median(latencies)
Median(vs) ==
    LET ordered == SortAsc(vs)
        n == Len(ordered)
    IN  IF n % 2 = 1 THEN Frac(ordered[(n + 1) \div 2], 1)
        ELSE Frac(ordered[n \div 2] + ordered[n \div 2 + 1], 2)

\* run_benchmarks: the summary dict
Summary(a, fx, lat, chars, entities) ==
    [modelVersion |-> a.loads,
     samples |-> Len(fx),
     iterationsPerSample |-> MeasuredPasses(a),
     totalRequests |-> Len(lat),
     averageLatencyMs |-> IF lat = <<>> THEN Frac(0, 1)
                          ELSE Frac(SumSeq(lat), Len(lat)),
     medianLatencyMs |-> IF lat = <<>> THEN Frac(0, 1) ELSE Median(lat),
     p95LatencyMs |-> Frac(Percentile(lat, 95), 100),
     minLatencyMs |-> IF lat = <<>> THEN Frac(0, 1) ELSE Frac(SortAsc(lat)[1], 1),
     maxLatencyMs |-> IF lat = <<>> THEN Frac(0, 1)
                      ELSE Frac(SortAsc(lat)[Len(lat)], 1),
     charactersPerSecond |-> IF SumSeq(lat) = 0 THEN Frac(0, 1)
                             ELSE Frac(1000 * chars, SumSeq(lat)),
     totalEntitiesExtracted |-> entities]

\* ------------------------------------------------- benchmark run (state)

\* The records of a fixtures file: one with a threshold, one without,
\* one on which the model's call raises.
BenchSamples ==
    { [id |-> "business_short", text_len |-> 67, threshold |-> Some(45),
       entities |-> 3, raises |-> FALSE],
      [id |-> "no_threshold", text_len |-> 10, threshold |-> None,
       entities |-> 1, raises |-> FALSE],
      [id |-> "unreadable", text_len |-> 5, threshold |-> Some(40),
       entities |-> 0, raises |-> TRUE] }

\* The longest fixtures file, in records.
MaxCorpus == 2

\* --iterations, --warmup
IterationCounts == {-1, 0, 2}
WarmupCounts == {-1, 0, 2}

\* The wall-clock time of a measured pass, in milliseconds.
Elapsed == {1, 3}

InitBench ==
    /\ IdleSpans
    /\ IdleExport
    /\ IdleConvert
    /\ IdleTools
    /\ IdleFixtures
    /\ IdleCompare
    /\ IdlePercentile
    /\ bpc = "start"
    /\ \/ bargs \in [iterations : IterationCounts, warmup : WarmupCounts,
                     output : BOOLEAN, loads : {"v2", "v1"},
                     fixtures_file : {Some(c) : c \in SeqsUpTo(BenchSamples, MaxCorpus)}]
       \/ bargs \in [iterations : {2}, warmup : {2}, output : {TRUE},
                     loads : {"none"},
                     fixtures_file : {None} \cup
                        {Some(<<c>>) : c \in {b \in BenchSamples : ~b.raises}}]
    /\ corpus = <<>>
    /\ sample_idx = 0
    /\ warm_done = 0
    /\ iter_done = 0
    /\ calls = <<>>
    /\ latencies = <<>>
    /\ total_characters = 0
    /\ total_entities = 0
    /\ stats = None
    /\ summary_file = None
    /\ boutcome = "running"

\* main: fixtures = load_fixtures(args.fixtures)
LoadFixtures ==
    /\ bpc = "start"
    /\ IF IsNone(bargs.fixtures_file)
       THEN /\ boutcome' = "SystemExit: fixtures file not found"
            /\ bpc' = "done"
            /\ UNCHANGED corpus
       ELSE IF Get(bargs.fixtures_file) = <<>>
       THEN /\ boutcome' = "SystemExit: no fixtures found"
            /\ bpc' = "done"
            /\ UNCHANGED corpus
       ELSE /\ corpus' = Get(bargs.fixtures_file)
            /\ bpc' = "load_model"
            /\ UNCHANGED boutcome
    /\ UNCHANGED <<bargs, sample_idx, warm_done, iter_done, calls, latencies,
                   total_characters, total_entities, stats, summary_file,
                   spanVars, exportVars, convertVars, toolVars, fixtureVars, compareVars,
                   percentileVars>>

\* main: model, model_version = load_model(args.model, args.device);
\* run_benchmarks: the totals start at zero
LoadBenchModel ==
    /\ bpc = "load_model"
    /\ IF bargs.loads = "none"
       THEN /\ boutcome' = "SystemExit: no gliner package"
            /\ bpc' = "done"
            /\ UNCHANGED sample_idx
       ELSE /\ sample_idx' = 1
            /\ bpc' = "run"
            /\ UNCHANGED boutcome
    /\ UNCHANGED <<bargs, corpus, warm_done, iter_done, calls, latencies,
                   total_characters, total_entities, stats, summary_file,
                   spanVars, exportVars, convertVars, toolVars, fixtureVars, compareVars,
                   percentileVars>>

\* run_benchmarks: one pass (one call of the model) over the current
\* sample, and the step to the next sample after its last pass
RunPass ==
    /\ bpc = "run"
    /\ sample_idx <= Len(corpus)
    /\ LET sample == corpus[sample_idx]
           kind == NextPassKind(warm_done, iter_done, bargs)
           w == IF kind = "warmup" THEN warm_done + 1 ELSE warm_done
           i == IF kind = "measured" THEN iter_done + 1 ELSE iter_done
           last == w >= WarmupPasses(bargs) /\ i >= MeasuredPasses(bargs)
       IN  IF sample.raises
           THEN /\ boutcome' = "raised: RuntimeError"
                /\ bpc' = "done"
                /\ UNCHANGED <<sample_idx, warm_done, iter_done, calls,
                               latencies, total_characters, total_entities>>
           ELSE /\ calls' = Append(calls, [sample |-> sample_idx, kind |-> kind,
                                           threshold |-> SampleThreshold(sample)])
                /\ IF kind = "measured"
                   THEN /\ \E elapsed \in Elapsed :
                              latencies' = Append(latencies, elapsed)
                        /\ total_characters' = total_characters + sample.text_len
                        /\ total_entities' = total_entities + sample.entities
                   ELSE UNCHANGED <<latencies, total_characters, total_entities>>
                /\ IF last
                   THEN sample_idx' = sample_idx + 1 /\ warm_done' = 0 /\ iter_done' = 0
                   ELSE sample_idx' = sample_idx /\ warm_done' = w /\ iter_done' = i
                /\ UNCHANGED <<bpc, boutcome>>
    /\ UNCHANGED <<bargs, corpus, stats, summary_file, spanVars, exportVars,
                   convertVars, toolVars, fixtureVars, compareVars, percentileVars>>

\* run_benchmarks: the statistics, once the loop over the samples is over
Summarize ==
    /\ bpc = "run"
    /\ sample_idx > Len(corpus)
    /\ stats' = Some(Summary(bargs, corpus, latencies, total_characters,
                             total_entities))
    /\ bpc' = "summary"
    /\ UNCHANGED <<bargs, corpus, sample_idx, warm_done, iter_done, calls,
                   latencies, total_characters, total_entities, summary_file,
                   boutcome, spanVars, exportVars, convertVars, toolVars, fixtureVars,
                   compareVars, percentileVars>>

\* main: the summary printed, and written to args.output if given
WriteSummary ==
    /\ bpc = "summary"
    /\ summary_file' = IF bargs.output THEN stats ELSE None
    /\ boutcome' = "returned"
    /\ bpc' = "done"
    /\ UNCHANGED <<bargs, corpus, sample_idx, warm_done, iter_done, calls,
                   latencies, total_characters, total_entities, stats,
                   spanVars, exportVars, convertVars, toolVars, fixtureVars, compareVars,
                   percentileVars>>

NextBench == LoadFixtures \/ LoadBenchModel \/ RunPass \/ Summarize \/ WriteSummary

SpecBench == InitBench /\ [][NextBench]_vars

\* --------------------------------------------- claims on the benchmark run

\* The positions in calls of the passes of one kind over sample i.
PassesOver(i, kind) ==
    {k \in DOMAIN calls : calls[k].sample = i /\ calls[k].kind = kind}

\* The characters and the entities of the measured passes among the
\* first n calls.
RECURSIVE MeasuredChars(_)
MeasuredChars(n) ==
    IF n = 0 THEN 0
    ELSE MeasuredChars(n - 1)
            + (IF calls[n].kind = "measured" THEN corpus[calls[n].sample].text_len
               ELSE 0)

RECURSIVE MeasuredEntities(_)
MeasuredEntities(n) ==
    IF n = 0 THEN 0
    ELSE MeasuredEntities(n - 1)
            + (IF calls[n].kind = "measured" THEN corpus[calls[n].sample].entities
               ELSE 0)

\* C17: the passes run sample after sample in corpus order; within a
\* sample no warmup pass follows a measured one, and the first measured
\* pass comes after all max(warmup, 0) warmup passes; the latencies, the
\* character total and the entity total are those of the measured passes
\* alone: one latency, len(text) characters and the entity count each.
C17_WarmupThenMeasured ==
    bpc \in {"run", "summary", "done"} =>
       /\ \A j, k \in DOMAIN calls :
             j < k =>
                /\ calls[j].sample <= calls[k].sample
                /\ calls[j].sample = calls[k].sample =>
                      ~(calls[j].kind = "measured" /\ calls[k].kind = "warmup")
       /\ \A k \in DOMAIN calls :
             calls[k].kind = "measured" =>
                Cardinality({j \in PassesOver(calls[k].sample, "warmup") : j < k})
                   = Max(bargs.warmup, 0)
       /\ Len(latencies) =
             Cardinality({k \in DOMAIN calls : calls[k].kind = "measured"})
       /\ total_characters = MeasuredChars(Len(calls))
       /\ total_entities = MeasuredEntities(Len(calls))

\* A finished run over two samples, two warmup and two measured passes
\* each: eight calls, four latencies.
C17_Witness ==
    /\ bpc = "done"
    /\ boutcome = "returned"
    /\ Len(corpus) = 2
    /\ corpus[1] # corpus[2]
    /\ Len(calls) = 8
    /\ Len(latencies) = 4
    /\ total_characters = 2 * (corpus[1].text_len + corpus[2].text_len)
    /\ calls[2].kind = "warmup"
    /\ calls[3].kind = "measured"

\* The records a corpus is prepared from: absent keys are None.
RawSamples ==
    [id : {Some("s")}, text : {Some("t")},
     labels : {Some(JsonList(<<"person">>))},
     threshold : {None, Some(JsonNumber(45))}]

\* C18: a record without a threshold is given 0.4, both by validate when
\* the corpus is prepared and by the harness when it runs the sample.
C18_DefaultThresholdIsPointFour ==
    /\ \A r \in RawSamples :
          IsNone(r.threshold) => Validate(r).sample.threshold = 40
    /\ \A k \in DOMAIN calls :
          IsNone(corpus[calls[k].sample].threshold) => calls[k].threshold = 40

\* C19: a sample on which the model's call raises is left out and the
\* run goes on: it ends with a summary, in which every other sample has
\* its max(iterations, 1) measured passes and the failing one has none.
C19_SampleFailureIsolated ==
    (bpc = "done" /\ corpus # <<>> /\ bargs.loads # "none") =>
       /\ boutcome = "returned"
       /\ ~IsNone(stats)
       /\ \A i \in DOMAIN corpus :
             Cardinality(PassesOver(i, "measured")) =
                IF corpus[i].raises THEN 0 ELSE Max(bargs.iterations, 1)

\* C28: whenever a run over a non-empty corpus produces a result, for
\* any iterations and warmup settings (zero and negative included),
\* iterationsPerSample is max(iterations, 1), at least 1, totalRequests is
\* samples times iterationsPerSample, every sample has at least one
\* measured pass, so the statistics are computed over a non-empty list of
\* latencies, and a negative warmup setting runs no warmup pass.
C28_AtLeastOneLatencyPerSample ==
    ~IsNone(stats) =>
       LET r == Get(stats)
       IN  /\ corpus # <<>>
           /\ r.samples = Len(corpus)
           /\ r.iterationsPerSample =
                 (IF bargs.iterations > 1 THEN bargs.iterations ELSE 1)
           /\ r.iterationsPerSample >= 1
           /\ r.totalRequests = r.samples * r.iterationsPerSample
           /\ \A i \in DOMAIN corpus :
                 Cardinality(PassesOver(i, "measured")) = r.iterationsPerSample
           /\ latencies # <<>>
           /\ Len(latencies) = r.totalRequests
           /\ bargs.warmup < 0 =>
                 \A k \in DOMAIN calls : calls[k].kind = "measured"

\* A result of a run with --iterations -1 --warmup -1 over two samples:
\* one measured pass each, no warmup pass.
C28_Witness ==
    /\ bpc = "done"
    /\ boutcome = "returned"
    /\ bargs.iterations = -1
    /\ bargs.warmup = -1
    /\ Len(corpus) = 2
    /\ ~IsNone(stats)
    /\ Get(stats).totalRequests = 2
    /\ Get(stats).iterationsPerSample = 1
    /\ Len(calls) = 2

\* =====================================================================
\* prepare_benchmark_data.py: main, read_samples, write_jsonl
\* =====================================================================

\* SEED_SAMPLES (thresholds in hundredths)
SEED_SAMPLES ==
    << [id |-> Some("business_short"), text |-> Some("t"),
        labels |-> Some(JsonList(<<"person", "organization", "location">>)),
        threshold |-> Some(JsonNumber(45))],
       [id |-> Some("health_research"), text |-> Some("t"),
        labels |-> Some(JsonList(<<"person", "organization", "location">>)),
        threshold |-> Some(JsonNumber(40))],
       [id |-> Some("policy_update"), text |-> Some("t"),
        labels |-> Some(JsonList(<<"organization", "location", "agreement">>)),
        threshold |-> Some(JsonNumber(35))] >>

\* read_samples(path): the exception raised ("" if none) and the list
\* returned. A JSONL file, a JSON list and a JSON object with a
\* "samples" list all give their list; an object without the key gives
\* [].
ReadSamplesOf(file) ==
    CASE file.kind = "missing" ->
            [raised |-> "SystemExit: Input file not found", samples |-> <<>>]
      [] file.kind = "not a list" ->
            [raised |-> "SystemExit: Input JSON must be a list", samples |-> <<>>]
      [] OTHER -> [raised |-> "", samples |-> file.samples]

\* main and write_jsonl: what comes next, the destination being opened
\* or not, with n_validated of n_samples samples validated and
\* n_written entries written. The list at line 98 is complete before
\* write_jsonl is called.
NextStepLazily(opened, n_validated, n_written, n_samples) ==
    IF ~opened THEN "open"
    ELSE IF n_written < n_validated THEN "write"
    ELSE IF n_validated < n_samples THEN "validate"
    ELSE "return"
NextStep(opened, n_validated, n_written, n_samples) ==
    IF n_validated < n_samples THEN "validate"
    ELSE IF ~opened THEN "open"
    ELSE IF n_written < n_validated THEN "write"
    ELSE "return"

\* path.open(mode): the lines of the file once opened; "w" truncates it,
\* "a" keeps what is there, both create it.
OpenedFile(file, append) ==
    IF append /\ ~IsNone(file) THEN file ELSE Some(<<>>)

\* --------------------------------------------- corpus preparation (state)

\* The samples of an input file: complete with and without a threshold,
\* without labels, with an empty list of labels, with labels that are not
\* a list, with a threshold that is not a number.
InputSamples ==
    { [id |-> Some("a"), text |-> Some("t"),
       labels |-> Some(JsonList(<<"person">>)), threshold |-> Some(JsonNumber(45))],
      [id |-> Some("b"), text |-> Some("t"),
       labels |-> Some(JsonList(<<"person", "place">>)), threshold |-> None],
      [id |-> Some("c"), text |-> Some("t"), labels |-> None, threshold |-> None],
      [id |-> Some("d"), text |-> Some("t"),
       labels |-> Some(JsonList(<<>>)), threshold |-> None],
      [id |-> Some("e"), text |-> Some("t"),
       labels |-> Some(JsonString("person")), threshold |-> None],
      [id |-> Some("f"), text |-> Some("t"),
       labels |-> Some(JsonList(<<"person">>)),
       threshold |-> Some(JsonString("high"))] }

\* The longest input file, in samples.
MaxInput == 2

\* A line the destination holds before the run.
PriorLine ==
    [id |-> "earlier", text |-> "t", labels |-> <<"person">>, threshold |-> 40]

InitPrepare ==
    /\ IdleSpans
    /\ IdleExport
    /\ IdleConvert
    /\ IdleFixtures
    /\ IdleCompare
    /\ IdleBench
    /\ IdlePercentile
    /\ IdleDump
    /\ IdleRewrite
    /\ ppc = "start"
    /\ \/ /\ pargs \in [input : {None}, append : BOOLEAN]
          /\ input_file = [kind |-> "missing", samples |-> <<>>]
       \/ /\ pargs \in [input : {Some("samples.jsonl")}, append : BOOLEAN]
          /\ \/ input_file \in [kind : {"missing", "not a list"}, samples : {<<>>}]
             \/ input_file \in [kind : {"list"},
                                 samples : SeqsUpTo(InputSamples, MaxInput)]
    /\ prior \in {None, Some(<<>>), Some(<<PriorLine>>)}
    /\ destination = prior
    /\ psamples = <<>>
    /\ validated = <<>>
    /\ handle = None
    /\ poutcome = "running"

\* main: samples = read_samples(args.input) if args.input else SEED_SAMPLES
ReadSamples ==
    /\ ppc = "start"
    /\ IF IsNone(pargs.input)
       THEN psamples' = SEED_SAMPLES /\ ppc' = "main" /\ UNCHANGED poutcome
       ELSE LET r == ReadSamplesOf(input_file)
            IN  IF r.raised # ""
                THEN poutcome' = r.raised /\ ppc' = "done" /\ UNCHANGED psamples
                ELSE psamples' = r.samples /\ ppc' = "main" /\ UNCHANGED poutcome
    /\ UNCHANGED <<pargs, input_file, prior, destination, validated, handle,
                   scriptVars, dumpVars, rewriteVars>>

\* main: validate(sample), the next element of the list at line 98
ValidateSample ==
    /\ ppc = "main"
    /\ NextStep(~IsNone(handle), Len(validated),
                IF IsNone(handle) THEN 0 ELSE Get(handle), Len(psamples)) = "validate"
    /\ LET r == Validate(psamples[Len(validated) + 1])
       IN  IF r.raised # ""
           THEN poutcome' = r.raised /\ ppc' = "done" /\ UNCHANGED validated
           ELSE validated' = Append(validated, r.sample) /\ UNCHANGED <<ppc, poutcome>>
    /\ UNCHANGED <<pargs, input_file, prior, destination, psamples, handle,
                   scriptVars, dumpVars, rewriteVars>>

\* write_jsonl: path.open("a" if append else "w")
OpenDestination ==
    /\ ppc = "main"
    /\ NextStep(~IsNone(handle), Len(validated),
                IF IsNone(handle) THEN 0 ELSE Get(handle), Len(psamples)) = "open"
    /\ destination' = OpenedFile(destination, pargs.append)
    /\ handle' = Some(0)
    /\ UNCHANGED <<ppc, pargs, input_file, prior, psamples, validated, poutcome,
                   scriptVars, dumpVars, rewriteVars>>

\* write_jsonl: handle.write(json.dumps(entry) + "\n")
WriteEntry ==
    /\ ppc = "main"
    /\ NextStep(~IsNone(handle), Len(validated),
                IF IsNone(handle) THEN 0 ELSE Get(handle), Len(psamples)) = "write"
    /\ destination' = Some(Append(Get(destination), validated[Get(handle) + 1]))
    /\ handle' = Some(Get(handle) + 1)
    /\ UNCHANGED <<ppc, pargs, input_file, prior, psamples, validated, poutcome,
                   scriptVars, dumpVars, rewriteVars>>

\* main: write_jsonl returns, the count is printed
FinishPrepare ==
    /\ ppc = "main"
    /\ NextStep(~IsNone(handle), Len(validated),
                IF IsNone(handle) THEN 0 ELSE Get(handle), Len(psamples)) = "return"
    /\ poutcome' = "returned"
    /\ ppc' = "done"
    /\ UNCHANGED <<pargs, input_file, prior, destination, psamples, validated,
                   handle, scriptVars, dumpVars, rewriteVars>>

NextPrepare ==
    ReadSamples \/ ValidateSample \/ OpenDestination \/ WriteEntry \/ FinishPrepare

SpecPrepare == InitPrepare /\ [][NextPrepare]_vars

\* --------------------------------------- claims on the corpus preparation

\* The samples the run is given: the seed samples or the input's list.
GivenSamples == IF IsNone(pargs.input) THEN SEED_SAMPLES ELSE input_file.samples

InputReadable == IsNone(pargs.input) \/ input_file.kind = "list"

AllValid == \A i \in DOMAIN GivenSamples : Validate(GivenSamples[i]).raised = ""

ValidatedSamples == [i \in DOMAIN GivenSamples |-> Validate(GivenSamples[i]).sample]

\* C30: the destination differs from what it was before the run only
\* once every sample has passed validation; a run given an invalid
\* sample (or no readable input) ends with an error and the destination
\* as it was; a run given valid samples returns with, in replace mode,
\* exactly the validated samples in input order, and in append mode the
\* prior content followed by them.
C30_ValidatedBeforeWritten ==
    /\ (ppc # "idle" /\ (destination # prior \/ ~IsNone(handle))) =>
          /\ InputReadable
          /\ AllValid
          /\ validated = ValidatedSamples
    /\ (ppc = "done" /\ ~(InputReadable /\ AllValid)) =>
          /\ poutcome \notin {"running", "returned"}
          /\ destination = prior
    /\ (ppc = "done" /\ InputReadable /\ AllValid) =>
          /\ poutcome = "returned"
          /\ destination =
                Some(IF pargs.append /\ ~IsNone(prior)
                     THEN Get(prior) \o ValidatedSamples
                     ELSE ValidatedSamples)

\* An append of two valid samples to a file of one line; and a replace
\* refused for its second sample, the file keeping its line.
C30_Witness ==
    /\ ppc = "done"
    /\ poutcome = "returned"
    /\ pargs.append
    /\ prior = Some(<<PriorLine>>)
    /\ Len(Get(destination)) = 3
    /\ Get(destination)[1] = PriorLine
    /\ Get(destination)[2].id # Get(destination)[3].id

C30_WitnessRefused ==
    /\ ppc = "done"
    /\ ~pargs.append
    /\ prior = Some(<<PriorLine>>)
    /\ Len(validated) = 1
    /\ Len(psamples) = 2
    /\ poutcome = "SystemExit: no label"
    /\ destination = prior

\* =====================================================================
\* dump_gliner2_tensors.py: main
\* =====================================================================

\* load_case(case_id): the case found, or the SystemExit
LoadCaseOf(a) ==
    IF \E i \in DOMAIN a.test_cases : a.test_cases[i].id = a.case_id
    THEN [raised |-> "",
          case |-> Some(a.test_cases[CHOOSE i \in DOMAIN a.test_cases :
                                        /\ a.test_cases[i].id = a.case_id
                                        /\ \A j \in 1 .. i - 1 :
                                              a.test_cases[j].id # a.case_id])]
    ELSE [raised |-> "SystemExit: Test case not found", case |-> None]

\* hooked_predict: the keys it adds to captured, and what it returns
HookedPredict(pred_count) ==
    [keys |-> {"field_names", "schema_embeddings", "count_logits",
               "predicted_count", "span_rep_shape", "span_rep", "span_mask",
               "span_indices", "structure_embeddings", "span_scores"},
     returned |-> IF pred_count <= 0 THEN <<0, "None">>
                  ELSE <<pred_count, "span_scores">>]

\* extractor.extract_entities with GLiNER2._predict_spans as given: the
\* keys captured and the exception that leaves it ("" if none).
ExtractEntitiesOf(method, rt) ==
    CASE rt.extract = "raises before predict" ->
            [keys |-> {}, raised |-> "raised: extract_entities"]
      [] rt.extract = "raises in predict" ->
            [keys |-> IF method = "hooked_predict" THEN {"field_names"} ELSE {},
             raised |-> "raised: _predict_spans"]
      [] rt.extract = "raises after predict" ->
            [keys |-> IF method = "hooked_predict"
                      THEN HookedPredict(rt.pred_count).keys ELSE {},
             raised |-> "raised: extract_entities"]
      [] OTHER ->
            [keys |-> (IF method = "hooked_predict"
                       THEN HookedPredict(rt.pred_count).keys ELSE {})
                         \cup {"raw_result"},
             raised |-> ""]

\* ------------------------------------------------------ tensor dump (state)

\* The cases of python_outputs.json: with and without a threshold
DumpCases ==
    << [id |-> "simple_person", threshold |-> Some(5)],
       [id |-> "no_threshold", threshold |-> None] >>

InitDump ==
    /\ IdleSpans
    /\ IdleExport
    /\ IdleConvert
    /\ IdleFixtures
    /\ IdleCompare
    /\ IdleBench
    /\ IdlePercentile
    /\ IdlePrepare
    /\ IdleRewrite
    /\ dpc = "start"
    /\ dargs \in [case_id : {"simple_person", "no_threshold", "unknown"},
                   test_cases : {DumpCases}]
    /\ druntime \in [load : {"ok", "raises"},
                      extract : {"ok", "raises before predict",
                                 "raises in predict", "raises after predict"},
                      pred_count : {0, 2},
                      write : {"ok", "raises"}]
    /\ predict_spans = "original"
    /\ captured = {}
    /\ dump_file = None
    /\ doutcome = "running"

\* main: case = load_case(args.case_id)
LoadCase ==
    /\ dpc = "start"
    /\ LET r == LoadCaseOf(dargs)
       IN  IF r.raised # ""
           THEN dpc' = "done" /\ doutcome' = r.raised
           ELSE dpc' = "load" /\ UNCHANGED doutcome
    /\ UNCHANGED <<dargs, druntime, predict_spans, captured, dump_file,
                   scriptVars, prepareVars, rewriteVars>>

\* main: extractor = GLiNER2.from_pretrained(args.model); captured = {...}
LoadDumpModel ==
    /\ dpc = "load"
    /\ IF druntime.load = "raises"
       THEN dpc' = "done" /\ doutcome' = "raised: from_pretrained"
                         /\ UNCHANGED captured
       ELSE /\ dpc' = "hook"
            /\ captured' = {"case_id", "text", "labels", "threshold"}
            /\ UNCHANGED doutcome
    /\ UNCHANGED <<dargs, druntime, predict_spans, dump_file, scriptVars,
                   prepareVars, rewriteVars>>

\* main: original_predict = GLiNER2._predict_spans;
\* GLiNER2._predict_spans = hooked_predict
HookPredict ==
    /\ dpc = "hook"
    /\ predict_spans' = "hooked_predict"
    /\ dpc' = "extract"
    /\ UNCHANGED <<dargs, druntime, captured, dump_file, doutcome, scriptVars,
                   prepareVars, rewriteVars>>

\* main: try: raw_result = extractor.extract_entities(...)
ExtractEntities ==
    /\ dpc = "extract"
    /\ LET r == ExtractEntitiesOf(predict_spans, druntime)
       IN  /\ captured' = captured \cup r.keys
           /\ doutcome' = IF r.raised = "" THEN doutcome ELSE r.raised
    /\ dpc' = "finally"
    /\ UNCHANGED <<dargs, druntime, predict_spans, dump_file, scriptVars,
                   prepareVars, rewriteVars>>

\* main: finally: GLiNER2._predict_spans = original_predict
RestorePredict ==
    /\ dpc = "finally"
    /\ predict_spans' = "original"
    /\ dpc' = IF doutcome = "running" THEN "write" ELSE "done"
    /\ UNCHANGED <<dargs, druntime, captured, dump_file, doutcome, scriptVars,
                   prepareVars, rewriteVars>>

\* main: json.dump(captured, handle)
WriteDump ==
    /\ dpc = "write"
    /\ IF druntime.write = "raises"
       THEN doutcome' = "raised: json.dump" /\ UNCHANGED dump_file
       ELSE doutcome' = "returned" /\ dump_file' = Some(captured)
    /\ dpc' = "done"
    /\ UNCHANGED <<dargs, druntime, predict_spans, captured, scriptVars,
                   prepareVars, rewriteVars>>

NextDump ==
    \/ LoadCase
    \/ LoadDumpModel
    \/ HookPredict
    \/ ExtractEntities
    \/ RestorePredict
    \/ WriteDump

SpecDump == InitDump /\ [][NextDump]_vars

\* The two scripts that patch a library while they work: a run of either.
SpecPatches == (InitConvert \/ InitDump) /\ [][NextConvert \/ NextDump]_vars

\* ------------------------------------------- claims on the monkey-patches

\* C26: the patches are in place only while the guarded work runs. Once
\* the conversion's main has returned or failed, scaled_size_sqrt and
\* build_rpos are what they were before it (none is the patched
\* function), and they were patched while it worked if the module
\* defines scaled_size_sqrt; once the dump's extraction has returned or
\* failed, GLiNER2._predict_spans is the original method, and it was the
\* hook during the extraction.
C26_PatchesUndone ==
    /\ cpc = "exit" =>
          /\ deberta \in Debertas
          /\ deberta.scaled_size_sqrt # "patched"
          /\ deberta.build_rpos # "patched"
    /\ (cpc \in {"load", "encoder", "heads", "tokenizer", "manifest", "finally"}
         /\ deberta.importable /\ deberta.scaled_size_sqrt # "absent") =>
          /\ deberta.scaled_size_sqrt = "patched"
          /\ deberta.build_rpos \in {"patched", "absent"}
    /\ dpc \in {"write", "done"} => predict_spans = "original"
    /\ dpc \in {"extract", "finally"} => predict_spans = "hooked_predict"

\* A conversion that failed in a head with both functions patched, and
\* left them restored.
C26_Witness ==
    /\ cpc = "exit"
    /\ outcome = "raised: convert classifier"
    /\ restore = [scaled_size_sqrt |-> Some("original"),
                  build_rpos |-> Some("original")]
    /\ deberta = [importable |-> TRUE, scaled_size_sqrt |-> "original",
                  build_rpos |-> "original"]

\* A dump whose extraction raised inside the hook, the method restored.
C26_WitnessDump ==
    /\ dpc = "done"
    /\ doutcome = "raised: _predict_spans"
    /\ "field_names" \in captured
    /\ predict_spans = "original"
    /\ IsNone(dump_file)

\* =====================================================================
\* convert_to_coreml.py: ExportableDownscaledTransformer
\* A parameter is the id of its storage; heap[id] holds the tensor's
\* entries along its first dimension (the rows of a weight, the elements
\* of a bias), one value for each.
\* =====================================================================

\* A new parameter whose storage receives entries (torch.nn.Linear /
\* LayerNorm allocate, copy_ fills).
Alloc(h, entries) == [heap |-> Append(h, entries), id |-> Len(h) + 1]

\* _clone_linear(linear): the clone, and the heap with its storages
CloneLinearShared(linear, h) == [module |-> linear, heap |-> h]
CloneLinear(linear, h) ==
    LET w == Alloc(h, h[linear.weight])
    IN  IF IsNone(linear.bias)
        THEN [module |-> [kind |-> "Linear", weight |-> w.id, bias |-> None],
              heap |-> w.heap]
        ELSE LET b == Alloc(w.heap, w.heap[Get(linear.bias)])
             IN  [module |-> [kind |-> "Linear", weight |-> w.id,
                              bias |-> Some(b.id)],
                  heap |-> b.heap]

\* _clone_layer_norm(norm)
CloneLayerNorm(norm, h) ==
    LET w == Alloc(h, h[norm.weight])
        b == Alloc(w.heap, w.heap[Get(norm.bias)])
    IN  [module |-> [kind |-> "LayerNorm", weight |-> w.id, bias |-> Some(b.id)],
         heap |-> b.heap]

\* ExportableSelfAttention.__init__: the entries of the fused tensor
\* copied to the q, k or v projection: in_proj[:E], in_proj[E:2E],
\* in_proj[2E:]
ProjectionRowsSwapped(fused, E, which) ==
    CASE which = "q" -> PySlice(fused, 0, E)
      [] which = "k" -> PySlice(fused, 2 * E, Len(fused))
      [] which = "v" -> PySlice(fused, E, 2 * E)
ProjectionRows(fused, E, which) ==
    CASE which = "q" -> PySlice(fused, 0, E)
      [] which = "k" -> PySlice(fused, E, 2 * E)
      [] which = "v" -> PySlice(fused, 2 * E, Len(fused))

\* ExportableSelfAttention(attention)
ExportableSelfAttention(attention, h) ==
    LET E == attention.embed_dim
        in_proj == h[attention.in_proj_weight]
        in_bias == h[attention.in_proj_bias]
        qw == Alloc(h, ProjectionRows(in_proj, E, "q"))
        qb == Alloc(qw.heap, ProjectionRows(in_bias, E, "q"))
        kw == Alloc(qb.heap, ProjectionRows(in_proj, E, "k"))
        kb == Alloc(kw.heap, ProjectionRows(in_bias, E, "k"))
        vw == Alloc(kb.heap, ProjectionRows(in_proj, E, "v"))
        vb == Alloc(vw.heap, ProjectionRows(in_bias, E, "v"))
        out == CloneLinear(attention.out_proj, vb.heap)
    IN  [module |->
            [embed_dim |-> E,
             q_proj |-> [kind |-> "Linear", weight |-> qw.id, bias |-> Some(qb.id)],
             k_proj |-> [kind |-> "Linear", weight |-> kw.id, bias |-> Some(kb.id)],
             v_proj |-> [kind |-> "Linear", weight |-> vw.id, bias |-> Some(vb.id)],
             out_proj |-> out.module],
         heap |-> out.heap]

\* ExportableTransformerLayer(layer)
ExportableTransformerLayer(layer, h) ==
    LET attn == ExportableSelfAttention(layer.self_attn, h)
        n1 == CloneLayerNorm(layer.norm1, attn.heap)
        n2 == CloneLayerNorm(layer.norm2, n1.heap)
        l1 == CloneLinear(layer.linear1, n2.heap)
        l2 == CloneLinear(layer.linear2, l1.heap)
    IN  [module |-> [self_attn |-> attn.module, norm1 |-> n1.module,
                     norm2 |-> n2.module, linear1 |-> l1.module,
                     linear2 |-> l2.module, activation |-> layer.activation],
         heap |-> l2.heap]

\* ExportableDownscaledTransformer.__init__: the modules of out_projector,
\* a Linear cloned, any other module taken as it is
RECURSIVE CloneOutProjectorOf(_, _)
CloneOutProjectorOf(modules, h) ==
    IF modules = <<>> THEN [modules |-> <<>>, heap |-> h]
    ELSE LET first == IF Head(modules).kind = "Linear"
                      THEN CloneLinear(Head(modules), h)
                      ELSE [module |-> Head(modules), heap |-> h]
             rest == CloneOutProjectorOf(Tail(modules), first.heap)
         IN  [modules |-> <<first.module>> \o rest.modules, heap |-> rest.heap]

\* ---------------------------------------------- transformer rewrite (state)

\* The widest attention and the deepest stack modelled.
MaxEmbed == 2
MaxLayers == 2

\* The entries of parameter id of the source module, n of them.
InitialTensor(id, n) == [r \in 1 .. n |-> 100 * id + r]

\* torch.nn.Linear, LayerNorm and TransformerEncoderLayer of the source
\* module, their parameters at consecutive ids from id on.
LinearModuleAt(id, has_bias) ==
    [kind |-> "Linear", weight |-> id,
     bias |-> IF has_bias THEN Some(id + 1) ELSE None]

LayerNormAt(id) == [kind |-> "LayerNorm", weight |-> id, bias |-> Some(id + 1)]

ParametersPerLayer == 12

EncoderLayerAt(id, E) ==
    [self_attn |-> [embed_dim |-> E, in_proj_weight |-> id, in_proj_bias |-> id + 1,
                    out_proj |-> LinearModuleAt(id + 2, TRUE)],
     norm1 |-> LayerNormAt(id + 4),
     norm2 |-> LayerNormAt(id + 6),
     linear1 |-> LinearModuleAt(id + 8, TRUE),
     linear2 |-> LinearModuleAt(id + 10, TRUE),
     activation |-> "relu"]

\* The DownscaledTransformer given to the rewrite: in_projector, L
\* encoder layers, and an out_projector of the given kinds of module.
DownscaledTransformer(E, L, kinds, in_bias) ==
    [in_projector |-> LinearModuleAt(1, in_bias),
     layers |-> [i \in 1 .. L |-> EncoderLayerAt(3 + ParametersPerLayer * (i - 1), E)],
     out_projector |->
        [j \in 1 .. Len(kinds) |->
            IF kinds[j] = "Linear"
            THEN LinearModuleAt(3 + ParametersPerLayer * L + 2 * (j - 1), TRUE)
            ELSE [kind |-> kinds[j]]]]

\* The fused tensors of an attention have 3E entries, the others E.
IsFused(id, L) ==
    /\ id >= 3
    /\ id < 3 + ParametersPerLayer * L
    /\ (id - 3) % ParametersPerLayer \in {0, 1}

SourceHeap(E, L, kinds) ==
    [id \in 1 .. (2 + ParametersPerLayer * L + 2 * Len(kinds)) |->
        InitialTensor(id, IF IsFused(id, L) THEN 3 * E ELSE E)]

\* The out_projector of the model: an MLP of Linear layers and
\* activations.
OutProjectors == { <<"Linear">>, <<"Linear", "ReLU", "Linear">> }

InitRewrite ==
    /\ IdleSpans
    /\ IdleExport
    /\ IdleConvert
    /\ IdleFixtures
    /\ IdleCompare
    /\ IdleBench
    /\ IdlePercentile
    /\ IdlePrepare
    /\ IdleDump
    /\ wpc = "start"
    /\ embed_dim \in 1 .. MaxEmbed
    /\ \E L \in 1 .. MaxLayers, kinds \in OutProjectors, in_bias \in BOOLEAN :
          /\ original = DownscaledTransformer(embed_dim, L, kinds, in_bias)
          /\ heap = SourceHeap(embed_dim, L, kinds)
    /\ rewritten = [in_projector |-> None, layers |-> <<>>, out_projector |-> <<>>]

\* ExportableDownscaledTransformer.__init__:
\* self.in_projector = _clone_linear(original.in_projector)
CloneInProjector ==
    /\ wpc = "start"
    /\ LET r == CloneLinear(original.in_projector, heap)
       IN  /\ rewritten' = [rewritten EXCEPT !.in_projector = Some(r.module)]
           /\ heap' = r.heap
    /\ wpc' = "layers"
    /\ UNCHANGED <<embed_dim, original, scriptVars, prepareVars, dumpVars>>

\* __init__: ExportableTransformerLayer(layer), the next layer of
\* original.transformer.layers
WrapLayer ==
    /\ wpc = "layers"
    /\ LET i == Len(rewritten.layers) + 1
           r == ExportableTransformerLayer(original.layers[i], heap)
       IN  /\ rewritten' = [rewritten EXCEPT !.layers = Append(@, r.module)]
           /\ heap' = r.heap
           /\ wpc' = IF i = Len(original.layers) THEN "out" ELSE "layers"
    /\ UNCHANGED <<embed_dim, original, scriptVars, prepareVars, dumpVars>>

\* __init__: self.out_projector = torch.nn.Sequential(...)
CloneOutProjector ==
    /\ wpc = "out"
    /\ LET r == CloneOutProjectorOf(original.out_projector, heap)
       IN  /\ rewritten' = [rewritten EXCEPT !.out_projector = r.modules]
           /\ heap' = r.heap
    /\ wpc' = "done"
    /\ UNCHANGED <<embed_dim, original, scriptVars, prepareVars, dumpVars>>

\* The parameters of a Linear or LayerNorm, of a wrapped layer, of the
\* rewritten module.
ParametersOf(m) == {m.weight} \cup (IF IsNone(m.bias) THEN {} ELSE {Get(m.bias)})

WrappedLayerParameters(layer) ==
    ParametersOf(layer.self_attn.q_proj) \cup ParametersOf(layer.self_attn.k_proj)
       \cup ParametersOf(layer.self_attn.v_proj)
       \cup ParametersOf(layer.self_attn.out_proj)
       \cup ParametersOf(layer.norm1) \cup ParametersOf(layer.norm2)
       \cup ParametersOf(layer.linear1) \cup ParametersOf(layer.linear2)

SequentialParameters(modules) ==
    UNION {ParametersOf(modules[j]) :
              j \in {k \in DOMAIN modules : modules[k].kind = "Linear"}}

RewrittenParameters ==
    (IF IsNone(rewritten.in_projector) THEN {}
     ELSE ParametersOf(Get(rewritten.in_projector)))
       \cup UNION {WrappedLayerParameters(rewritten.layers[i]) :
                      i \in DOMAIN rewritten.layers}
       \cup SequentialParameters(rewritten.out_projector)

\* After the rewrite: an in-place write (zero_) to one parameter of the
\* rewritten module.
WriteParameter ==
    /\ wpc = "done"
    /\ \E id \in RewrittenParameters :
          heap' = [heap EXCEPT ![id] = [r \in DOMAIN @ |-> 0]]
    /\ wpc' = "written"
    /\ UNCHANGED <<embed_dim, original, rewritten, scriptVars, prepareVars,
                   dumpVars>>

NextRewrite == CloneInProjector \/ WrapLayer \/ CloneOutProjector \/ WriteParameter

SpecRewrite == InitRewrite /\ [][NextRewrite]_vars

\* ------------------------------------------------- claims on the rewrite

\* C21: for every wrapped layer, with E the embed dimension, the q, k
\* and v projections have E rows each, row r of q, k, v is row r, E + r,
\* 2E + r of the fused weight, and q, k, v concatenated are the fused
\* weight; the same holds of the biases.
C21_SlicesPartitionFused ==
    wpc \in {"layers", "out", "done"} =>
       \A i \in DOMAIN rewritten.layers :
          LET a == rewritten.layers[i].self_attn
              f == original.layers[i].self_attn
              E == f.embed_dim
              Partitions(q, k, v, fused) ==
                 /\ Len(heap[fused]) = 3 * E
                 /\ Len(heap[q]) = E /\ Len(heap[k]) = E /\ Len(heap[v]) = E
                 /\ \A r \in 1 .. E :
                       /\ heap[q][r] = heap[fused][r]
                       /\ heap[k][r] = heap[fused][E + r]
                       /\ heap[v][r] = heap[fused][2 * E + r]
                 /\ heap[q] \o heap[k] \o heap[v] = heap[fused]
          IN  /\ Partitions(a.q_proj.weight, a.k_proj.weight, a.v_proj.weight,
                            f.in_proj_weight)
              /\ Partitions(Get(a.q_proj.bias), Get(a.k_proj.bias),
                            Get(a.v_proj.bias), f.in_proj_bias)

\* Both layers of a stack of embed dimension 2 are wrapped; the key
\* projection of the second holds rows 3 and 4 of its fused weight.
C21_Witness ==
    /\ wpc = "done"
    /\ embed_dim = 2
    /\ Len(rewritten.layers) = 2
    /\ heap[rewritten.layers[2].self_attn.k_proj.weight] =
          <<100 * original.layers[2].self_attn.in_proj_weight + 3,
            100 * original.layers[2].self_attn.in_proj_weight + 4>>

\* The parameters of the source module.
SourceLayerParameters(layer) ==
    {layer.self_attn.in_proj_weight, layer.self_attn.in_proj_bias}
       \cup ParametersOf(layer.self_attn.out_proj)
       \cup ParametersOf(layer.norm1) \cup ParametersOf(layer.norm2)
       \cup ParametersOf(layer.linear1) \cup ParametersOf(layer.linear2)

SourceParameters ==
    ParametersOf(original.in_projector)
       \cup UNION {SourceLayerParameters(original.layers[i]) :
                      i \in DOMAIN original.layers}
       \cup SequentialParameters(original.out_projector)

\* Module c holds the values of module m in storages of its own.
FreshCopy(c, m) ==
    /\ c.weight # m.weight
    /\ heap[c.weight] = heap[m.weight]
    /\ IsNone(c.bias) <=> IsNone(m.bias)
    /\ ~IsNone(m.bias) =>
          /\ Get(c.bias) # Get(m.bias)
          /\ heap[Get(c.bias)] = heap[Get(m.bias)]

\* C23: no parameter of the rewritten module is a parameter of the
\* source module; until something writes to the rewritten module, every
\* linear and normalization module of every wrapped layer (and the
\* in_projector and the Linear modules of out_projector) is a fresh copy
\* holding the source's values; and the source module's parameters hold
\* their initial values throughout, also after a write to a parameter of
\* the rewritten module.
C23_SourceNeverAliased ==
    wpc # "idle" =>
       /\ RewrittenParameters \cap SourceParameters = {}
       /\ \A id \in SourceParameters : heap[id] = InitialTensor(id, Len(heap[id]))
       /\ wpc # "written" =>
             /\ ~IsNone(rewritten.in_projector) =>
                   FreshCopy(Get(rewritten.in_projector), original.in_projector)
             /\ \A i \in DOMAIN rewritten.layers :
                   /\ FreshCopy(rewritten.layers[i].self_attn.out_proj,
                                original.layers[i].self_attn.out_proj)
                   /\ FreshCopy(rewritten.layers[i].norm1, original.layers[i].norm1)
                   /\ FreshCopy(rewritten.layers[i].norm2, original.layers[i].norm2)
                   /\ FreshCopy(rewritten.layers[i].linear1, original.layers[i].linear1)
                   /\ FreshCopy(rewritten.layers[i].linear2, original.layers[i].linear2)
             /\ \A j \in DOMAIN rewritten.out_projector :
                   rewritten.out_projector[j].kind = "Linear" =>
                      FreshCopy(rewritten.out_projector[j], original.out_projector[j])

\* The first feed-forward weight of the second wrapped layer has been
\* zeroed after the rewrite; the source's still holds its values.
C23_Witness ==
    /\ wpc = "written"
    /\ Len(rewritten.layers) = 2
    /\ \A r \in DOMAIN heap[rewritten.layers[2].linear1.weight] :
          heap[rewritten.layers[2].linear1.weight][r] = 0
    /\ heap[original.layers[2].linear1.weight][1] =
          100 * original.layers[2].linear1.weight + 1

====
